---- MODULE Spec2Model ----
(***************************************************************************)
(* ContentFlow AI: the research agent (research_agent.py), the content     *)
(* creator (content_creator.py), the analytics agent (analytics_agent.py), *)
(* the store (database_manager.py) and the orchestrator (app.py).          *)
(*                                                                         *)
(* A Python str is a sequence of code points; each code point is a TLA+    *)
(* string.  ASCII code points are written as themselves, the others by     *)
(* name: "<fire>" U+1F525, "<bulb>" U+1F4A1, "<sparkles>" U+2728,          *)
(* "<thought>" U+1F4AD, "<bullet>" U+2022, "<backtick>" U+0060,            *)
(* "<target>" U+1F3AF, "<chart>" U+1F4CA, "<uptrend>" U+1F4C8,             *)
(* "<magnifier>" U+1F50D, "<clock>" U+23F0, "<frame>" U+1F5BC,             *)
(* "<vs16>" U+FE0F.  Len is Python's len.                                  *)
(***************************************************************************)
EXTENDS Integers, Sequences, FiniteSets, TLC

VARIABLES
    eiCalled,     \* extract_insights has been called
    eiSources,    \* the sources mapping of that call
    eiOutcome,    \* what the hosted model did on that call
    eiRet,        \* what extract_insights gave its caller
    gpBundle,     \* generate_for_platform: research_data
    gpPlatform,   \*   platform
    gpTone,       \*   tone
    gpOutcome,    \*   what the hosted model does on this call
    gpPending,    \*   the call is still to be made
    gpRet,        \*   what the latest call returned
    gpRequest,    \*   the model request the latest call made
    gpPrev,       \*   what the call before it returned
    gpModelCalls, \*   model requests made so far
    kgSources,    \* create_knowledge_graph: the sources mapping
    kgClock,      \*   datetime.now(), one tick per call
    kgGraph,      \*   the graph the latest call returned
    kgPrev,       \*   the graph the call before it returned
    rtPc,         \* research_topic: the statement it is at
    rtTopic,      \*   topic
    rtSelected,   \*   sources, the names selected
    rtMaxResults, \*   max_results
    rtClock,      \*   datetime.now(), one tick per reading
    rtResults,    \*   results, the bundle under construction
    rtLog,        \*   the calls made to the agents and the store, in order
    rtDb,         \*   the rows of the research table
    rtRet,        \*   what research_topic returned
    scKind,       \* a connector call: which of search_arxiv, search_web, search_youtube
    scMaxResults, \*   max_results
    scLib,        \*   what the search library does on this call
    scPc,         \*   the statement the connector is at
    scSeen,       \*   results the library has yielded so far
    scResults,    \*   results, the list under construction
    scCalls,      \*   searches started on the library
    scRet,        \*   what the connector gave its caller
    atTopic,      \* analyze_trends: topic
    atHistory,    \*   historical_data
    atTrendReply, \*   what the hosted model does on the trend request
    atRecsReply,  \*   what the hosted model does on the recommendations request
    atCalled,     \*   the call has returned or raised
    atPc,         \*   the statement the call is at
    atPerf,       \*   performance_insights
    atLog,        \*   what the call has done so far, in order
    atRet,        \*   what analyze_trends gave its caller
    dmDb,         \* DatabaseManager: the rows of the three tables
    dmClock,      \*   CURRENT_TIMESTAMP, in whole seconds
    dmCalls,      \*   operations called so far
    dmLast,       \*   the latest call and what it gave its caller
    dmPrev,       \*   the call before it
    ctEnv,        \* the constructors: os.environ, the variables that are set
    ctAgents,     \*   the agent each class name is bound to, once constructed
    ctLast,       \*   the latest constructor call and how it ended
    ctReply,      \*   the latest model request made through an agent's client
    obHeap,       \* the shared objects: arguments of the calls and the agents' tables
    obBefore,     \*   the shared objects before the latest call
    obLast,       \*   the latest component call and the stores it made
    obCalls,      \*   component calls made so far
    gcArgs,       \* generate_content: research_data, platforms, tone, include_image
    gcPc,         \*   "platforms" (in the loop), "done" or "raised"
    gcIndex,      \*   platforms the loop has been through
    gcPackage,    \*   content_package["platforms"], in insertion order
    gcDb,         \*   the tables store_content writes to
    gcRet         \*   the outcome of the call

eiVars == <<eiCalled, eiSources, eiOutcome, eiRet>>
gpVars == <<gpBundle, gpPlatform, gpTone, gpOutcome, gpPending, gpRet, gpRequest, gpPrev,
            gpModelCalls>>
kgVars == <<kgSources, kgClock, kgGraph, kgPrev>>
rtVars == <<rtPc, rtTopic, rtSelected, rtMaxResults, rtClock, rtResults, rtLog, rtDb, rtRet>>
scVars == <<scKind, scMaxResults, scLib, scPc, scSeen, scResults, scCalls, scRet>>
coreVars == <<eiVars, gpVars, kgVars, rtVars>>
atVars == <<atTopic, atHistory, atTrendReply, atRecsReply, atCalled, atPc, atPerf, atLog,
            atRet>>
dmVars == <<dmDb, dmClock, dmCalls, dmLast, dmPrev>>
ctVars == <<ctEnv, ctAgents, ctLast, ctReply>>
obVars == <<obHeap, obBefore, obLast, obCalls>>
gcVars == <<gcArgs, gcPc, gcIndex, gcPackage, gcDb, gcRet>>
otherVars == <<scVars, atVars, dmVars, ctVars, obVars, gcVars>>
\* what the actions of one component leave alone
scRest == <<coreVars, atVars, dmVars, ctVars, obVars, gcVars>>
atRest == <<coreVars, scVars, dmVars, ctVars, obVars, gcVars>>
dmRest == <<coreVars, scVars, atVars, ctVars, obVars, gcVars>>
ctRest == <<coreVars, scVars, atVars, dmVars, obVars, gcVars>>
obRest == <<coreVars, scVars, atVars, dmVars, ctVars, gcVars>>
gcRest == <<coreVars, scVars, atVars, dmVars, ctVars, obVars>>
vars == <<coreVars, otherVars>>

(***************************************************************************)
(* str operations                                                          *)
(***************************************************************************)
Min(a, b) == IF a < b THEN a ELSE b

\* s[:n] for n >= 0
Take(s, n) == SubSeq(s, 1, Min(n, Len(s)))

\* str.isspace() of one code point
PyWs == {" ", "\n", "\t", "\r"}

\* s.strip(chars): drop the code points of chars from both ends
StripChars(s, chars) ==
    IF \A i \in 1..Len(s) : s[i] \in chars THEN <<>>
    ELSE LET a == CHOOSE i \in 1..Len(s) :
                      s[i] \notin chars /\ \A j \in 1..(i - 1) : s[j] \in chars
             b == CHOOSE i \in 1..Len(s) :
                      s[i] \notin chars /\ \A j \in (i + 1)..Len(s) : s[j] \in chars
         IN  SubSeq(s, a, b)

\* s.strip()
Strip(s) == StripChars(s, PyWs)

\* sep.join(parts)
RECURSIVE Join(_, _)
Join(sep, parts) ==
    IF parts = <<>> THEN <<>>
    ELSE IF Len(parts) = 1 THEN parts[1]
    ELSE parts[1] \o sep \o Join(sep, Tail(parts))

\* s.split(c) for one code point c: the pieces between the occurrences of c
SplitOn(s, c) ==
    LET cuts == SelectSeq([i \in 1..Len(s) |-> i], LAMBDA i : s[i] = c)
        n    == Len(cuts)
        lo(k) == IF k = 1 THEN 1 ELSE cuts[k - 1] + 1
        hi(k) == IF k = n + 1 THEN Len(s) ELSE cuts[k] - 1
    IN  [k \in 1..(n + 1) |-> SubSeq(s, lo(k), hi(k))]

\* s.split(): the maximal runs of non-whitespace code points
SplitWs(s) ==
    LET starts == SelectSeq([i \in 1..Len(s) |-> i],
                      LAMBDA i : s[i] \notin PyWs /\ (i = 1 \/ s[i - 1] \in PyWs))
        ends   == SelectSeq([i \in 1..Len(s) |-> i],
                      LAMBDA i : s[i] \notin PyWs /\ (i = Len(s) \/ s[i + 1] \in PyWs))
    IN  [k \in 1..Len(starts) |-> SubSeq(s, starts[k], ends[k])]

\* sub in s
Contains(s, sub) ==
    \E i \in 1..(Len(s) - Len(sub) + 1) : SubSeq(s, i, i + Len(sub) - 1) = sub

\* s.split(sep)[1] for a sep that is in s: what follows its first occurrence
AfterFirst(s, sep) ==
    LET i == CHOOSE i \in 1..(Len(s) - Len(sep) + 1) :
                 /\ SubSeq(s, i, i + Len(sep) - 1) = sep
                 /\ \A j \in 1..(i - 1) : SubSeq(s, j, j + Len(sep) - 1) # sep
    IN  SubSeq(s, i + Len(sep), Len(s))

\* s.split(sep)[0]: what precedes the first occurrence of sep, all of s without one
BeforeFirst(s, sep) ==
    IF ~ Contains(s, sep) THEN s
    ELSE LET i == CHOOSE i \in 1..(Len(s) - Len(sep) + 1) :
                      /\ SubSeq(s, i, i + Len(sep) - 1) = sep
                      /\ \A j \in 1..(i - 1) : SubSeq(s, j, j + Len(sep) - 1) # sep
         IN  SubSeq(s, 1, i - 1)

(***************************************************************************)
(* json.loads on the texts of this model (no backslash, no '.', no         *)
(* exponent): a value is [t, s, items] with t the Python type of the       *)
(* decoded value, s the text of a str (or the lexeme of a number or        *)
(* literal), items the elements of a list (or the member values of a       *)
(* dict) and keys the member names of a dict, in the order of the text.    *)
(***************************************************************************)
JsonWs == {" ", "\t", "\n", "\r"}
Digits == {"0", "1", "2", "3", "4", "5", "6", "7", "8", "9"}

Str(s)      == [t |-> "str",  s |-> s,    items |-> <<>>, keys |-> <<>>]
ListVal(xs) == [t |-> "list", s |-> <<>>, items |-> xs,   keys |-> <<>>]
Atom(t, s)  == [t |-> t,      s |-> s,    items |-> <<>>, keys |-> <<>>]
\* ms: the members, each [k, v]
DictVal(ms) ==
    [t |-> "dict", s |-> <<>>,
     items |-> [i \in 1..Len(ms) |-> ms[i].v],
     keys  |-> [i \in 1..Len(ms) |-> ms[i].k]]

\* d[key] of a decoded dict: the last member of that name wins
HasKey(d, key) == \E i \in 1..Len(d.keys) : d.keys[i] = key

DictGet(d, key) ==
    d.items[CHOOSE i \in 1..Len(d.keys) :
                d.keys[i] = key /\ \A j \in (i + 1)..Len(d.keys) : d.keys[j] # key]

JsonFail == [ok |-> FALSE, val |-> Atom("none", <<>>), pos |-> 0]
JsonOk(v, p) == [ok |-> TRUE, val |-> v, pos |-> p]

\* first index >= i that holds no JSON whitespace (Len(s) + 1 at the end)
SkipWs(s, i) ==
    CHOOSE j \in i..(Len(s) + 1) :
        /\ j = Len(s) + 1 \/ s[j] \notin JsonWs
        /\ \A k \in i..(j - 1) : s[k] \in JsonWs

At(s, i, c) == i <= Len(s) /\ s[i] = c

StartsAt(s, i, w) ==
    i + Len(w) - 1 <= Len(s) /\ SubSeq(s, i, i + Len(w) - 1) = w

\* a string whose opening quote is at i; a control character inside it is an error
ParseString(s, i) ==
    IF ~ \E j \in (i + 1)..Len(s) : s[j] = "\"" THEN JsonFail
    ELSE LET j == CHOOSE j \in (i + 1)..Len(s) :
                      s[j] = "\"" /\ \A k \in (i + 1)..(j - 1) : s[k] # "\""
         IN  IF \E k \in (i + 1)..(j - 1) : s[k] \in {"\n", "\t", "\r"}
             THEN JsonFail
             ELSE JsonOk(Str(SubSeq(s, i + 1, j - 1)), j + 1)

\* an integer whose first digit is at i ("0" or a digit 1-9 and more digits)
ParseDigits(s, i, from) ==
    IF s[i] = "0" THEN JsonOk(Atom("int", SubSeq(s, from, i)), i + 1)
    ELSE LET j == CHOOSE j \in i..Len(s) :
                      /\ \A k \in i..j : s[k] \in Digits
                      /\ j = Len(s) \/ s[j + 1] \notin Digits
         IN  JsonOk(Atom("int", SubSeq(s, from, j)), j + 1)

RECURSIVE ParseValue(_, _), ParseElements(_, _, _), ParseMembers(_, _, _)

\* the value that starts at i (no whitespace before it)
ParseValue(s, i) ==
    IF i > Len(s) THEN JsonFail
    ELSE IF s[i] = "\"" THEN ParseString(s, i)
    ELSE IF s[i] = "[" THEN
        LET j == SkipWs(s, i + 1)
        IN  IF At(s, j, "]") THEN JsonOk(ListVal(<<>>), j + 1)
            ELSE ParseElements(s, j, <<>>)
    ELSE IF s[i] = "{" THEN
        LET j == SkipWs(s, i + 1)
        IN  IF At(s, j, "}") THEN JsonOk(DictVal(<<>>), j + 1)
            ELSE ParseMembers(s, j, <<>>)
    ELSE IF StartsAt(s, i, <<"n", "u", "l", "l">>)
        THEN JsonOk(Atom("none", <<"n", "u", "l", "l">>), i + 4)
    ELSE IF StartsAt(s, i, <<"t", "r", "u", "e">>)
        THEN JsonOk(Atom("bool", <<"t", "r", "u", "e">>), i + 4)
    ELSE IF StartsAt(s, i, <<"f", "a", "l", "s", "e">>)
        THEN JsonOk(Atom("bool", <<"f", "a", "l", "s", "e">>), i + 5)
    ELSE IF s[i] \in Digits THEN ParseDigits(s, i, i)
    ELSE IF s[i] = "-" /\ i < Len(s) /\ s[i + 1] \in Digits
        THEN ParseDigits(s, i + 1, i)
    ELSE JsonFail

\* the elements of an array, the next one starting at i; acc holds the earlier ones
ParseElements(s, i, acc) ==
    LET v == ParseValue(s, i)
    IN  IF ~ v.ok THEN JsonFail
        ELSE LET j == SkipWs(s, v.pos)
                 got == Append(acc, v.val)
             IN  IF At(s, j, "]") THEN JsonOk(ListVal(got), j + 1)
                 ELSE IF At(s, j, ",") THEN ParseElements(s, SkipWs(s, j + 1), got)
                 ELSE JsonFail

\* the members of an object, the next key starting at i
ParseMembers(s, i, acc) ==
    IF ~ At(s, i, "\"") THEN JsonFail
    ELSE LET k == ParseString(s, i)
         IN  IF ~ k.ok THEN JsonFail
             ELSE LET c == SkipWs(s, k.pos)
                  IN  IF ~ At(s, c, ":") THEN JsonFail
                      ELSE LET v == ParseValue(s, SkipWs(s, c + 1))
                           IN  IF ~ v.ok THEN JsonFail
                               ELSE LET j == SkipWs(s, v.pos)
                                        got == Append(acc, [k |-> k.val.s, v |-> v.val])
                                    IN  IF At(s, j, "}") THEN JsonOk(DictVal(got), j + 1)
                                        ELSE IF At(s, j, ",")
                                            THEN ParseMembers(s, SkipWs(s, j + 1), got)
                                        ELSE JsonFail

\* json.loads(s): ok = FALSE stands for json.JSONDecodeError
JsonLoads(s) ==
    LET v == ParseValue(s, SkipWs(s, 1))
    IN  IF v.ok /\ SkipWs(s, v.pos) = Len(s) + 1 THEN v ELSE JsonFail

(***************************************************************************)
(* Program constants and the bounds of the model                           *)
(***************************************************************************)
\* insights[:7]
MaxInsights == 7
\* all_content[:10]
PromptLimit == 10
\* items[:5]
MaxNodesPerSource == 5
\* paper.summary[:500]
SummaryLimit == 500

\* the longest JSON array or line list the hosted model replies with
MaxReplyItems == 9

DigitSeq == <<"0", "1", "2", "3", "4", "5", "6", "7", "8", "9">>
Digit(j) == DigitSeq[(j % 10) + 1]

(***************************************************************************)
(* The sources mapping: a dict keeps insertion order, so it is a sequence  *)
(* of entries [kind, items]; an item is a dict with the keys in `keys`.    *)
(***************************************************************************)
KindLetter(kind) ==
    IF kind = "arxiv" THEN "A" ELSE IF kind = "web" THEN "W" ELSE "Y"

\* the j-th item a connector returns for a kind (search_arxiv, search_web, search_youtube)
ConnectorItem(kind, j) ==
    [keys  |-> IF kind = "arxiv"
                   THEN {"title", "authors", "summary", "published", "url", "categories"}
                   ELSE {"title", "snippet", "url", "source"},
     title |-> <<"T", KindLetter(kind), Digit(j)>>,
     body  |-> <<"B", KindLetter(kind), Digit(j)>>,
     url   |-> <<"u", KindLetter(kind), Digit(j)>>]

ConnectorItems(kind, n) == [j \in 1..n |-> ConnectorItem(kind, j)]

Entry(kind, items) == [kind |-> kind, items |-> items]

\* 'Paper: '
PaperPrefix ==
    <<"P", "a", "p", "e", "r", ":", " ">>

\* the digest entry of one item; ok = FALSE stands for the KeyError of item['...']
ContentOf(kind, item) ==
    IF kind = "arxiv"
    THEN [ok   |-> {"title", "summary"} \subseteq item.keys,
          text |-> PaperPrefix \o item.title \o <<"\n">> \o item.body]
    ELSE [ok   |-> {"title", "snippet"} \subseteq item.keys,
          text |-> item.title \o <<"\n">> \o item.body]

\* all_content: the digest entries of every item, kind by kind
RECURSIVE AllContent(_)
AllContent(sources) ==
    IF sources = <<>> THEN <<>>
    ELSE [k \in 1..Len(sources[1].items) |->
              ContentOf(sources[1].kind, sources[1].items[k])]
         \o AllContent(Tail(sources))

\* chr(10).join(all_content[:10])
PromptSources(sources) ==
    Join(<<"\n">>, [k \in 1..Min(PromptLimit, Len(AllContent(sources))) |->
                        AllContent(sources)[k].text])

(***************************************************************************)
(* ResearchAgent.extract_insights                                          *)
(***************************************************************************)
\* 'Research data collected successfully'
DefaultInsight1 ==
    <<"R", "e", "s", "e", "a", "r", "c", "h", " ", "d", "a", "t", "a", " ", "c", "o", "l", "l",
      "e", "c", "t", "e", "d", " ", "s", "u", "c", "c", "e", "s", "s", "f", "u", "l", "l", "y">>

\* 'Multiple sources analyzed'
DefaultInsight2 ==
    <<"M", "u", "l", "t", "i", "p", "l", "e", " ", "s", "o", "u", "r", "c", "e", "s", " ", "a",
      "n", "a", "l", "y", "z", "e", "d">>

\* 'Content ready for generation'
DefaultInsight3 ==
    <<"C", "o", "n", "t", "e", "n", "t", " ", "r", "e", "a", "d", "y", " ", "f", "o", "r", " ",
      "g", "e", "n", "e", "r", "a", "t", "i", "o", "n">>

DefaultInsights == <<Str(DefaultInsight1), Str(DefaultInsight2), Str(DefaultInsight3)>>

\* what a call returns to its caller: a list, None, or an exception
RetList(xs) == [kind |-> "list", val |-> xs]
RetNone     == [kind |-> "None", val |-> <<>>]
RetRaise    == [kind |-> "raise", val |-> <<>>]

\* what the hosted model does on one request: it raises, or message.content is
\* None, or message.content is a text
ModelRaises      == [kind |-> "raise", text |-> <<>>]
ModelSaysNone    == [kind |-> "none",  text |-> <<>>]
ModelSays(text)  == [kind |-> "text",  text |-> text]

\* [line.strip('- <bullet>').strip() for line in content.split('\n') if line.strip()]
InsightLines(content) ==
    LET lines == SelectSeq(SplitOn(content, "\n"), LAMBDA l : Strip(l) # <<>>)
    IN  [k \in 1..Len(lines) |-> Str(Strip(StripChars(lines[k], {"-", " ", "<bullet>"})))]

\* ParseInsights without the cap on a decoded list
ParseInsightsNoCap(content) ==
    LET p == JsonLoads(content)
    IN  IF p.ok
        THEN IF p.val.t = "list" THEN RetList(p.val.items) ELSE RetNone
        ELSE RetList(Take(InsightLines(content), MaxInsights))

\* the body of the try block once message.content is a text
ParseInsights(content) ==
    LET p == JsonLoads(content)
    IN  IF p.ok
        THEN IF p.val.t = "list" THEN RetList(Take(p.val.items, MaxInsights))
             ELSE RetNone
        ELSE RetList(Take(InsightLines(content), MaxInsights))

\* extract_insights without the outer except branch: a failed model call propagates
ExtractInsightsNoHandler(sources, outcome) ==
    IF \E k \in 1..Len(AllContent(sources)) : ~ AllContent(sources)[k].ok
        THEN RetRaise
    ELSE IF outcome.kind \in {"raise", "none"} THEN RetRaise
    ELSE ParseInsights(outcome.text)

ExtractInsights(sources, outcome) ==
    IF \E k \in 1..Len(AllContent(sources)) : ~ AllContent(sources)[k].ok
        THEN RetRaise
    ELSE IF outcome.kind = "raise" THEN RetList(DefaultInsights)
    ELSE IF outcome.kind = "none" THEN RetList(DefaultInsights)
    ELSE ParseInsights(outcome.text)

(***************************************************************************)
(* The replies the hosted model is taken to give                           *)
(***************************************************************************)
\* 'Insight '
InsightWord ==
    <<"I", "n", "s", "i", "g", "h", "t", " ">>

InsightText(i) == InsightWord \o <<Digit(i)>>
InsightArray(n) == [i \in 1..n |-> InsightText(i)]

Quoted(s) == <<"\"">> \o s \o <<"\"">>

\* json.dumps of a list of str
JsonDumps(arr) ==
    <<"[">> \o Join(<<",", " ">>, [i \in 1..Len(arr) |-> Quoted(arr[i])]) \o <<"]">>

\* json.dumps(arr, indent=2) of a non-empty list of str
JsonDumpsIndent(arr) ==
    <<"[", "\n">>
    \o Join(<<",", "\n">>, [i \in 1..Len(arr) |-> <<" ", " ">> \o Quoted(arr[i])])
    \o <<"\n", "]">>

FenceJson(text) ==
    <<"<backtick>", "<backtick>", "<backtick>", "j", "s", "o", "n", "\n">> \o text \o <<"\n", "<backtick>", "<backtick>", "<backtick>">>
FencePlain(text) ==
    <<"<backtick>", "<backtick>", "<backtick>", "\n">> \o text \o <<"\n", "<backtick>", "<backtick>", "<backtick>">>

\* a bulleted list, one insight per line, with a blank line after the first
BulletLines(n) ==
    Join(<<"\n">>,
         [i \in 1..n |-> (IF i % 2 = 1 THEN <<"-", " ">> ELSE <<"<bullet>", " ">>)
                         \o InsightText(i) \o (IF i = 1 THEN <<"\n">> ELSE <<>>)])

ArrayReplies  == {JsonDumps(InsightArray(n)) : n \in 0..MaxReplyItems}
IndentReplies == {JsonDumpsIndent(InsightArray(n)) : n \in 1..MaxReplyItems}
FencedReplies ==
    {FenceJson(JsonDumps(InsightArray(n))) : n \in 0..MaxReplyItems}
    \cup {FencePlain(JsonDumps(InsightArray(n))) : n \in 0..MaxReplyItems}
    \cup {FenceJson(JsonDumpsIndent(InsightArray(n))) : n \in 1..MaxReplyItems}
TruncatedReplies ==
    {Take(JsonDumps(InsightArray(MaxReplyItems)), k) :
        k \in 0..Len(JsonDumps(InsightArray(MaxReplyItems)))}
\* a numbered list: '1. Insight 1', '2) Insight 2', '3. Insight 3', ...
NumberedLines(n) ==
    Join(<<"\n">>,
         [i \in 1..n |-> <<Digit(i)>> \o (IF i % 2 = 1 THEN <<".", " ">> ELSE <<")", " ">>)
                         \o InsightText(i)])

LineReplies ==
    {BulletLines(n) : n \in 1..MaxReplyItems} \cup {NumberedLines(n) : n \in 1..MaxReplyItems}
OtherReplies ==
    { <<>>,
      <<" ", "\n", " ">>,
      <<"-", "-", "-">>,
      <<"{", "}">>,
      <<"{", "\"", "k", "\"", ":", " ">> \o Quoted(InsightText(1)) \o <<"}">>,
      <<"{", "\"", "k", "\"", ":", " ">> \o JsonDumps(InsightArray(2)) \o <<"}">>,
      Quoted(InsightText(1)),
      <<"1", "2">>,
      <<"n", "u", "l", "l">>,
      <<"[", "1", ",", " ", "2", "]">>,
      <<"[", "[", "]", ",", " ", "n", "u", "l", "l", "]">> }

InsightReplies ==
    ArrayReplies \cup IndentReplies \cup FencedReplies \cup TruncatedReplies
    \cup LineReplies \cup OtherReplies

InsightOutcomes ==
    {ModelRaises, ModelSaysNone} \cup {ModelSays(r) : r \in InsightReplies}

\* the mappings extract_insights is called with: empty, one web item, two kinds of
\* two items, and more than PromptLimit items
InsightSources ==
    { <<>>,
      <<Entry("web", ConnectorItems("web", 1))>>,
      <<Entry("arxiv", ConnectorItems("arxiv", 2)), Entry("web", ConnectorItems("web", 2))>>,
      <<Entry("arxiv", ConnectorItems("arxiv", 6)), Entry("web", ConnectorItems("web", 6))>> }

(***************************************************************************)
(* ContentCreator: platform_specs                                          *)
(***************************************************************************)
TwitterMaxLength == 280
LinkedInMaxLength == 3000
InstagramMaxLength == 2200
BlogPostMaxLength == 5000
\* specs.get("max_length", 5000)
DefaultMaxLength == 5000
\* content[:max_len - 20]
TruncateBuffer == 20

SpecPlatforms == {"Twitter", "LinkedIn", "Instagram", "Blog Post"}

\* self.platform_specs[platform]["max_length"]
PlatformMaxLength(platform) ==
    CASE platform = "Twitter"   -> TwitterMaxLength
      [] platform = "LinkedIn"  -> LinkedInMaxLength
      [] platform = "Instagram" -> InstagramMaxLength
      [] platform = "Blog Post" -> BlogPostMaxLength

(***************************************************************************)
(* More str operations                                                     *)
(***************************************************************************)
\* str(n) for n >= 0
RECURSIVE IntStr(_)
IntStr(n) == IF n < 10 THEN <<Digit(n)>> ELSE IntStr(n \div 10) \o <<Digit(n % 10)>>

\* s.replace(c + c, ""): the occurrences are taken left to right, so of every maximal
\* run of c the pairs go and the last c of a run of odd length stays
RemovePairs(s, c) ==
    LET LastOther(i) == CHOOSE j \in 0..(i - 1) :
                            /\ j = 0 \/ s[j] # c
                            /\ \A k \in (j + 1)..i : s[k] = c
        Keep(i) == \/ s[i] # c
                   \/ /\ i = Len(s) \/ s[i + 1] # c
                      /\ (i - LastOther(i)) % 2 = 1
        kept == SelectSeq([i \in 1..Len(s) |-> i], LAMBDA i : Keep(i))
    IN  [k \in 1..Len(kept) |-> s[kept[k]]]

UpperCase == <<"A", "B", "C", "D", "E", "F", "G", "H", "I", "J", "K", "L", "M",
               "N", "O", "P", "Q", "R", "S", "T", "U", "V", "W", "X", "Y", "Z">>
LowerCase == <<"a", "b", "c", "d", "e", "f", "g", "h", "i", "j", "k", "l", "m",
               "n", "o", "p", "q", "r", "s", "t", "u", "v", "w", "x", "y", "z">>

IsLetter(c) == \E k \in 1..26 : UpperCase[k] = c \/ LowerCase[k] = c

\* s.title(): a letter after a non-letter in upper case, every other letter in lower case
Title(s) ==
    [i \in 1..Len(s) |->
        IF i = 1 \/ ~ IsLetter(s[i - 1])
        THEN IF \E k \in 1..26 : LowerCase[k] = s[i]
             THEN UpperCase[CHOOSE k \in 1..26 : LowerCase[k] = s[i]]
             ELSE s[i]
        ELSE IF \E k \in 1..26 : UpperCase[k] = s[i]
             THEN LowerCase[CHOOSE k \in 1..26 : UpperCase[k] = s[i]]
             ELSE s[i]]

\* s.lower()
Lower(s) ==
    [i \in 1..Len(s) |->
        IF \E k \in 1..26 : UpperCase[k] = s[i]
        THEN LowerCase[CHOOSE k \in 1..26 : UpperCase[k] = s[i]]
        ELSE s[i]]

(***************************************************************************)
(* The research bundle handed to generate_for_platform: None, or a dict    *)
(* with the keys in `keys`; key_insights is a list of str, or None when    *)
(* insightsNone holds (extract_insights can return None).                  *)
(***************************************************************************)
NoneBundle ==
    [isNone |-> TRUE, keys |-> {}, topic |-> <<>>, insightsNone |-> FALSE,
     key_insights |-> <<>>, sources |-> <<>>, timestamp |-> 0]

DictBundle(keys, topic, insights, sources, timestamp) ==
    [isNone |-> FALSE, keys |-> keys, topic |-> topic, insightsNone |-> FALSE,
     key_insights |-> insights, sources |-> sources, timestamp |-> timestamp]

BundleKeys == {"topic", "timestamp", "sources", "key_insights", "knowledge_graph"}

\* NeedsResearch without the look at the topic
NeedsResearchNoTopic(b) ==
    \/ b.isNone
    \/ b.keys = {}

\* not research_data or not research_data.get("topic")
NeedsResearch(b) ==
    \/ b.isNone
    \/ b.keys = {}
    \/ "topic" \notin b.keys
    \/ b.topic = <<>>

\* research_data.get("key_insights", []) as a truth value
HasInsights(b) ==
    "key_insights" \in b.keys /\ ~ b.insightsNone /\ b.key_insights # <<>>

\* sum(len(items) for items in sources.values())
RECURSIVE TotalSources(_)
TotalSources(sources) ==
    IF sources = <<>> THEN 0 ELSE Len(sources[1].items) + TotalSources(Tail(sources))

(***************************************************************************)
(* ContentCreator._build_context                                           *)
(***************************************************************************)
\* 'Topic: '
TopicLabel ==
    <<"T", "o", "p", "i", "c", ":", " ">>

\* '\nKey Insights:'
KeyInsightsLabel ==
    <<"\n", "K", "e", "y", " ", "I", "n", "s", "i", "g", "h", "t", "s", ":">>

\* '\nBased on '
BasedOn ==
    <<"\n", "B", "a", "s", "e", "d", " ", "o", "n", " ">>

\* ' research sources'
ResearchSourcesLabel ==
    <<" ", "r", "e", "s", "e", "a", "r", "c", "h", " ", "s", "o", "u", "r", "c", "e", "s">>

BuildContext(topic, insights, sources) ==
    LET shown == Take(insights, 5)
        parts == <<TopicLabel \o topic>>
                 \o (IF insights # <<>>
                     THEN <<KeyInsightsLabel>>
                          \o [i \in 1..Len(shown) |-> IntStr(i) \o <<".", " ">> \o shown[i]]
                     ELSE <<>>)
                 \o <<BasedOn \o IntStr(TotalSources(sources)) \o ResearchSourcesLabel>>
    IN  Join(<<"\n">>, parts)

(***************************************************************************)
(* ContentCreator._post_process_content                                    *)
(***************************************************************************)
\* specs = self.platform_specs.get(platform, {}); specs.get("max_length", 5000)
EnforcedMaxLength(platform) ==
    IF platform \in SpecPlatforms THEN PlatformMaxLength(platform) ELSE DefaultMaxLength

PostProcessContent(content, platform) ==
    LET plain == IF platform # "Blog Post"
                 THEN RemovePairs(RemovePairs(content, "*"), "_")
                 ELSE content
        max_len == EnforcedMaxLength(platform)
        cut == IF Len(plain) > max_len
               THEN Take(plain, max_len - TruncateBuffer) \o <<".", ".", ".">>
               ELSE plain
    IN  Strip(cut)

(***************************************************************************)
(* ContentCreator._create_fallback_content                                 *)
(***************************************************************************)
\* 'Exploring exciting developments'
ExploringDefault ==
    <<"E", "x", "p", "l", "o", "r", "i", "n", "g", " ", "e", "x", "c", "i", "t", "i", "n", "g",
      " ", "d", "e", "v", "e", "l", "o", "p", "m", "e", "n", "t", "s">>

\* 'Excited to share insights on '
ExcitedToShare ==
    <<"E", "x", "c", "i", "t", "e", "d", " ", "t", "o", " ", "s", "h", "a", "r", "e", " ", "i",
      "n", "s", "i", "g", "h", "t", "s", " ", "o", "n", " ">>

\* '! 💡\n\nKey takeaways:\n'
KeyTakeaways ==
    <<"!", " ", "<bulb>", "\n", "\n", "K", "e", "y", " ", "t", "a", "k", "e", "a", "w", "a",
      "y", "s", ":", "\n">>

\* "\n\nWhat are your thoughts? Let's discuss in the comments!"
WhatAreYourThoughts ==
    <<"\n", "\n", "W", "h", "a", "t", " ", "a", "r", "e", " ", "y", "o", "u", "r", " ", "t",
      "h", "o", "u", "g", "h", "t", "s", "?", " ", "L", "e", "t", "'", "s", " ", "d", "i", "s",
      "c", "u", "s", "s", " ", "i", "n", " ", "t", "h", "e", " ", "c", "o", "m", "m", "e", "n",
      "t", "s", "!">>

\* 'Something interesting is happening...'
SomethingInteresting ==
    <<"S", "o", "m", "e", "t", "h", "i", "n", "g", " ", "i", "n", "t", "e", "r", "e", "s", "t",
      "i", "n", "g", " ", "i", "s", " ", "h", "a", "p", "p", "e", "n", "i", "n", "g", ".", ".",
      ".">>

\* '\n\n💭 What do you think?\n\n'
WhatDoYouThink ==
    <<"\n", "\n", "<thought>", " ", "W", "h", "a", "t", " ", "d", "o", " ", "y", "o", "u", " ",
      "t", "h", "i", "n", "k", "?", "\n", "\n">>

\* '\n\n## Introduction\n\n'
IntroductionHeading ==
    <<"\n", "\n", "#", "#", " ", "I", "n", "t", "r", "o", "d", "u", "c", "t", "i", "o", "n",
      "\n", "\n">>

\* 'An exploration of '
AnExplorationOf ==
    <<"A", "n", " ", "e", "x", "p", "l", "o", "r", "a", "t", "i", "o", "n", " ", "o", "f", " ">>

\* '\n\n## Key Points\n\n'
KeyPointsHeading ==
    <<"\n", "\n", "#", "#", " ", "K", "e", "y", " ", "P", "o", "i", "n", "t", "s", "\n", "\n">>

\* '\n\n## Conclusion\n\nThese insights highlight the importance of '
ConclusionHeading ==
    <<"\n", "\n", "#", "#", " ", "C", "o", "n", "c", "l", "u", "s", "i", "o", "n", "\n", "\n",
      "T", "h", "e", "s", "e", " ", "i", "n", "s", "i", "g", "h", "t", "s", " ", "h", "i", "g",
      "h", "l", "i", "g", "h", "t", " ", "t", "h", "e", " ", "i", "m", "p", "o", "r", "t", "a",
      "n", "c", "e", " ", "o", "f", " ">>

\* TwitterHashtags with the word limit of the Instagram branch
TwitterHashtagsFive(topic) ==
    LET words == Take(SplitWs(topic), 5)
    IN  Join(<<" ">>, [k \in 1..Len(words) |-> <<"#">> \o words[k]])

\* " ".join([f"#{word}" for word in topic.split()[:3]])
TwitterHashtags(topic) ==
    LET words == Take(SplitWs(topic), 3)
    IN  Join(<<" ">>, [k \in 1..Len(words) |-> <<"#">> \o words[k]])

\* ' '.join([f'#{w.lower()}' for w in topic.split()[:5]])
InstagramHashtags(topic) ==
    LET words == Take(SplitWs(topic), 5)
    IN  Join(<<" ">>, [k \in 1..Len(words) |-> <<"#">> \o Lower(words[k])])

\* chr(10).join(f'{marker} {i}' for i in insights[:n])
MarkedLines(marker, insights, n) ==
    LET shown == Take(insights, n)
    IN  Join(<<"\n">>, [k \in 1..Len(shown) |-> <<marker, " ">> \o shown[k]])

\* CreateFallbackContent signing the text with the number of requests made so far
CreateFallbackContentNumbered(platform, topic, insights) ==
    <<"#", " ">> \o topic \o <<" ">> \o IntStr(gpModelCalls)

CreateFallbackContent(platform, topic, insights) ==
    IF platform = "Twitter" THEN
        <<"<fire>", " ">>
        \o (IF insights # <<>> THEN insights[1] ELSE ExploringDefault)
        \o <<"\n", "\n">> \o TwitterHashtags(topic)
    ELSE IF platform = "LinkedIn" THEN
        ExcitedToShare \o topic \o KeyTakeaways
        \o MarkedLines("<bullet>", insights, 3) \o WhatAreYourThoughts
    ELSE IF platform = "Instagram" THEN
        <<"<sparkles>", " ">> \o topic \o <<" ", "<sparkles>", "\n", "\n">>
        \o (IF insights # <<>> THEN insights[1] ELSE SomethingInteresting)
        \o WhatDoYouThink \o InstagramHashtags(topic)
    ELSE
        <<"#", " ">> \o topic \o IntroductionHeading
        \o (IF insights # <<>> THEN insights[1] ELSE AnExplorationOf \o topic)
        \o KeyPointsHeading \o MarkedLines("-", insights, 5)
        \o ConclusionHeading \o topic \o <<".">>

(***************************************************************************)
(* ContentCreator.generate_for_platform                                    *)
(***************************************************************************)
\* 'Please complete research first to generate content.'
CompleteResearchFirst ==
    <<"P", "l", "e", "a", "s", "e", " ", "c", "o", "m", "p", "l", "e", "t", "e", " ", "r", "e",
      "s", "e", "a", "r", "c", "h", " ", "f", "i", "r", "s", "t", " ", "t", "o", " ", "g", "e",
      "n", "e", "r", "a", "t", "e", " ", "c", "o", "n", "t", "e", "n", "t", ".">>

\* 'No research data'
NoResearchData ==
    <<"N", "o", " ", "r", "e", "s", "e", "a", "r", "c", "h", " ", "d", "a", "t", "a">>

\* "'NoneType' object has no attribute 'replace'"
NoneHasNoReplace ==
    <<"'", "N", "o", "n", "e", "T", "y", "p", "e", "'", " ", "o", "b", "j", "e", "c", "t", " ",
      "h", "a", "s", " ", "n", "o", " ", "a", "t", "t", "r", "i", "b", "u", "t", "e", " ", "'",
      "r", "e", "p", "l", "a", "c", "e", "'">>

\* "object of type 'NoneType' has no len()"
NoneHasNoLen ==
    <<"o", "b", "j", "e", "c", "t", " ", "o", "f", " ", "t", "y", "p", "e", " ", "'", "N", "o",
      "n", "e", "T", "y", "p", "e", "'", " ", "h", "a", "s", " ", "n", "o", " ", "l", "e", "n",
      "(", ")">>

\* the record generate_for_platform returns, or the exception that leaves it;
\* metaKeys are the keys of its metadata
NoReturn ==
    [kind |-> "none", text |-> <<>>, metaKeys |-> {}, error |-> <<>>, fallback |-> FALSE,
     platform |-> "", tone |-> "", generated_at |-> <<>>, word_count |-> 0, char_count |-> 0]

GenerateRaises == [NoReturn EXCEPT !.kind = "raise"]

ErrorRecord ==
    [NoReturn EXCEPT !.kind = "dict", !.text = CompleteResearchFirst,
                     !.metaKeys = {"error"}, !.error = NoResearchData]

ContentRecord(text, b, platform, tone) ==
    [NoReturn EXCEPT !.kind = "dict", !.text = text,
                     !.metaKeys = {"platform", "tone", "generated_at", "word_count",
                                   "char_count"},
                     !.platform = platform, !.tone = tone,
                     !.generated_at = IF "timestamp" \in b.keys THEN b.timestamp ELSE <<>>,
                     !.word_count = Len(SplitWs(text)),
                     !.char_count = Len(text)]

FallbackRecord(text, message) ==
    [NoReturn EXCEPT !.kind = "dict", !.text = text,
                     !.metaKeys = {"error", "fallback"},
                     !.error = message, !.fallback = TRUE]

\* the hosted model raises an exception whose str() is message
ModelRaisesWith(message) == [kind |-> "raise", text |-> message]

\* the request of one chat.completions.create call: the values the system message
\* and the prompt template are filled with
NoRequest ==
    [made |-> FALSE, platform |-> "", tone |-> "", topic |-> <<>>, context |-> <<>>,
     specs |-> "", max_length |-> 0]

\* self.platform_specs.get(platform, self.platform_specs["Twitter"]) and
\* _create_content_prompt
ContentRequest(platform, tone, topic, context) ==
    LET specs == IF platform \in SpecPlatforms THEN platform ELSE "Twitter"
    IN  [made |-> TRUE, platform |-> platform, tone |-> tone, topic |-> topic,
         context |-> context, specs |-> specs, max_length |-> PlatformMaxLength(specs)]

\* what leaves the try block: the post-processed reply, or the exception's message
TryGenerate(outcome, platform) ==
    IF outcome.kind = "raise" THEN [ok |-> FALSE, text |-> outcome.text]
    ELSE IF outcome.kind = "none"
        THEN [ok |-> FALSE,
              text |-> IF platform # "Blog Post" THEN NoneHasNoReplace ELSE NoneHasNoLen]
    ELSE [ok |-> TRUE, text |-> PostProcessContent(outcome.text, platform)]

\* [ret, request]: the return value and the model request made
GenerateForPlatform(b, platform, tone, outcome) ==
    IF NeedsResearch(b) THEN [ret |-> ErrorRecord, request |-> NoRequest]
    ELSE
        LET insights == IF HasInsights(b) THEN b.key_insights ELSE <<>>
            sources  == IF "sources" \in b.keys THEN b.sources ELSE <<>>
            context  == BuildContext(b.topic, insights, sources)
            request  == ContentRequest(platform, tone, b.topic, context)
            try      == TryGenerate(outcome, platform)
            \* None[:3] and None[:5] raise inside the except block
            sliceOfNone == /\ "key_insights" \in b.keys
                           /\ b.insightsNone
                           /\ platform \notin {"Twitter", "Instagram"}
        IN  [request |-> request,
             ret |-> IF try.ok THEN ContentRecord(try.text, b, platform, tone)
                     ELSE IF sliceOfNone THEN GenerateRaises
                     ELSE FallbackRecord(
                              CreateFallbackContent(platform, b.topic, insights),
                              try.text)]

(***************************************************************************)
(* The calls generate_for_platform is taken to get                         *)
(***************************************************************************)
\* how far beyond a platform's limit the longest reply goes
OverLength == 50
\* the length of the long insight
LongInsightLength == 300

\* 'AI'
TopicOneWord ==
    <<"A", "I">>

\* 'quantum computing'
TopicTwoWords ==
    <<"q", "u", "a", "n", "t", "u", "m", " ", "c", "o", "m", "p", "u", "t", "i", "n", "g">>

\* 'Large Language Model Agents At Work'
TopicSixWords ==
    <<"L", "a", "r", "g", "e", " ", "L", "a", "n", "g", "u", "a", "g", "e", " ", "M", "o", "d",
      "e", "l", " ", "A", "g", "e", "n", "t", "s", " ", "A", "t", " ", "W", "o", "r", "k">>

\* 'Quantum advances accelerating'
InsightShort ==
    <<"Q", "u", "a", "n", "t", "u", "m", " ", "a", "d", "v", "a", "n", "c", "e", "s", " ", "a",
      "c", "c", "e", "l", "e", "r", "a", "t", "i", "n", "g">>

\* 'Trend #1: #AI everywhere'
InsightTagged ==
    <<"T", "r", "e", "n", "d", " ", "#", "1", ":", " ", "#", "A", "I", " ", "e", "v", "e", "r",
      "y", "w", "h", "e", "r", "e">>

\* '  **Big** news about __AI__ today  '
ShortMarkedReply ==
    <<" ", " ", "*", "*", "B", "i", "g", "*", "*", " ", "n", "e", "w", "s", " ", "a", "b", "o",
      "u", "t", " ", "_", "_", "A", "I", "_", "_", " ", "t", "o", "d", "a", "y", " ", " ">>

\* 'Request timed out.'
TimedOut ==
    <<"R", "e", "q", "u", "e", "s", "t", " ", "t", "i", "m", "e", "d", " ", "o", "u", "t", ".">>

\* 'Error code: 401'
Unauthorized ==
    <<"E", "r", "r", "o", "r", " ", "c", "o", "d", "e", ":", " ", "4", "0", "1">>

\* '2024-01-01T10:00:00'
Stamp1 ==
    <<"2", "0", "2", "4", "-", "0", "1", "-", "0", "1", "T", "1", "0", ":", "0", "0", ":", "0",
      "0">>

\* '2024-06-30T23:59:59'
Stamp2 ==
    <<"2", "0", "2", "4", "-", "0", "6", "-", "3", "0", "T", "2", "3", ":", "5", "9", ":", "5",
      "9">>

ContentTopics == {TopicOneWord, TopicTwoWords, TopicSixWords, <<" ", " ">>}

\* words of n code points in all: every sixth code point is a blank
Filler(n) == [i \in 1..n |-> IF i % 6 = 0 THEN " " ELSE "x"]

ContentInsights ==
    { <<>>,
      <<InsightShort>>,
      <<InsightTagged, InsightShort>>,
      <<Filler(LongInsightLength), InsightShort>>,
      InsightArray(6) }

TwoSources ==
    <<Entry("arxiv", ConnectorItems("arxiv", 2)), Entry("web", ConnectorItems("web", 2))>>

\* what a call gets besides platform, topic and insights
OtherInputs ==
    { [tone |-> "professional", sources |-> TwoSources, timestamp |-> Stamp1],
      [tone |-> "casual",       sources |-> <<>>,       timestamp |-> Stamp2] }

ContentBundles ==
    { NoneBundle,
      DictBundle({}, <<>>, <<>>, <<>>, <<>>),
      DictBundle({"error"}, <<>>, <<>>, <<>>, <<>>),
      DictBundle(BundleKeys \ {"topic"}, <<>>, <<InsightShort>>, TwoSources, Stamp1),
      DictBundle(BundleKeys, <<>>, <<InsightShort>>, TwoSources, Stamp1),
      [DictBundle(BundleKeys, TopicTwoWords, <<>>, TwoSources, Stamp1)
           EXCEPT !.insightsNone = TRUE] }
    \cup { DictBundle(BundleKeys, topic, insights, <<>>, <<>>) :
               topic \in ContentTopics, insights \in ContentInsights }

ContentPlatforms == SpecPlatforms \cup {"Facebook"}

FailingOutcomes ==
    {ModelRaisesWith(TimedOut), ModelRaisesWith(Unauthorized), ModelSaysNone}

\* replies around the length the platform's texts are cut at
\* '*__*new*': an underline marker between two single asterisks
NestedMarkedReply == <<"*", "_", "_", "*", "n", "e", "w", "*">>

ContentReplies(platform) ==
    LET m == EnforcedMaxLength(platform)
    IN  { <<>>,
          ShortMarkedReply,
          Filler(m - TruncateBuffer - 1),
          Filler(m),
          Filler(m + 1),
          Filler(m + OverLength),
          <<"*", "*">> \o Filler(m) \o <<"*", "*">>,
          <<"_", "_", "*", "*", "*">> \o Filler(m + 1),
          NestedMarkedReply }

\* the bundles the replies of a platform's cut length are tried with
ReplyBundles ==
    { DictBundle(BundleKeys, TopicTwoWords, <<InsightShort>>, <<>>, <<>>),
      DictBundle({"topic"}, TopicOneWord, <<>>, <<>>, <<>>) }

\* the calls: every bundle with a failing model call and with a short reply, and
\* the bundles above with every reply
ContentCalls ==
    { [bundle |-> b, platform |-> p, outcome |-> o] :
          b \in ContentBundles, p \in ContentPlatforms,
          o \in FailingOutcomes \cup {ModelSays(ShortMarkedReply)} }
    \cup UNION { { [bundle |-> b, platform |-> p, outcome |-> ModelSays(r)] :
                       b \in ReplyBundles, r \in ContentReplies(p) } :
                 p \in ContentPlatforms }

RetryOutcomes == FailingOutcomes \cup {ModelSays(ShortMarkedReply)}

\* the bundle with the other inputs of a call filled in
WithOther(b, other) ==
    IF b.isNone \/ {"sources", "timestamp"} \cap b.keys = {} THEN b
    ELSE [b EXCEPT !.sources = IF "sources" \in b.keys THEN other.sources ELSE @,
                   !.timestamp = IF "timestamp" \in b.keys THEN other.timestamp ELSE @]

(***************************************************************************)
(* ResearchAgent.create_knowledge_graph                                    *)
(***************************************************************************)
\* 'Unknown'
Unknown ==
    <<"U", "n", "k", "n", "o", "w", "n">>

\* FirstNodeId when the counter goes on from the graph returned last
ContinuedNodeId == Len(kgGraph.nodes)

\* node_id = 0
FirstNodeId == 0

\* NodeOf with item.get("title", "") for the label
NodeOfBlankLabel(kind, item, node_id) ==
    [id    |-> node_id,
     label |-> IF "title" \in item.keys THEN item.title ELSE <<>>,
     type  |-> kind,
     url   |-> IF "url" \in item.keys THEN item.url ELSE <<>>]

NodeOf(kind, item, node_id) ==
    [id    |-> node_id,
     label |-> IF "title" \in item.keys THEN item.title ELSE Unknown,
     type  |-> kind,
     url   |-> IF "url" \in item.keys THEN item.url ELSE <<>>]

\* GraphNodes without the limit per source
RECURSIVE GraphNodesUnlimited(_, _)
GraphNodesUnlimited(sources, node_id) ==
    IF sources = <<>> THEN <<>>
    ELSE LET items == sources[1].items
         IN  [k \in 1..Len(items) |-> NodeOf(sources[1].kind, items[k], node_id + k - 1)]
             \o GraphNodesUnlimited(Tail(sources), node_id + Len(items))

\* the two loops: the nodes of the kinds of `sources`, the next id being node_id
RECURSIVE GraphNodes(_, _)
GraphNodes(sources, node_id) ==
    IF sources = <<>> THEN <<>>
    ELSE LET items == Take(sources[1].items, MaxNodesPerSource)
         IN  [k \in 1..Len(items) |-> NodeOf(sources[1].kind, items[k], node_id + k - 1)]
             \o GraphNodes(Tail(sources), node_id + Len(items))

NoGraph ==
    [made |-> FALSE, nodes |-> <<>>, edges |-> <<>>, created_at |-> 0, total_sources |-> 0]

CreateKnowledgeGraph(sources, now) ==
    [made |-> TRUE,
     nodes |-> GraphNodes(sources, FirstNodeId),
     edges |-> <<>>,
     created_at |-> now,
     total_sources |-> TotalSources(sources)]

(***************************************************************************)
(* The mappings create_knowledge_graph is taken to get                     *)
(***************************************************************************)
\* the most items a kind holds
MaxItemsPerKind == 6
\* the calls made on one mapping
MaxGraphCalls == 2

SourceKinds == {"arxiv", "web", "youtube"}

\* the orders in which a dict can hold some of the kinds
KindOrders ==
    { order \in UNION {[1..n -> SourceKinds] : n \in 0..Cardinality(SourceKinds)} :
          \A i, j \in 1..Len(order) : i # j => order[i] # order[j] }

\* an item that is no connector's: it has neither title nor url
BareItem(kind, j) == [ConnectorItem(kind, j) EXCEPT !.keys = {"snippet"}]

\* n items of a kind; when bare, the second is a BareItem
GraphItems(kind, n, bare) ==
    [j \in 1..n |-> IF bare /\ j = 2 THEN BareItem(kind, j) ELSE ConnectorItem(kind, j)]

GraphSources ==
    UNION { { [k \in 1..Len(order) |-> Entry(order[k], GraphItems(order[k], count[k], bare))] :
                  count \in [1..Len(order) -> 0..MaxItemsPerKind] } :
            order \in KindOrders, bare \in BOOLEAN }

(***************************************************************************)
(* AnalyticsAgent (analytics_agent.py).  A performance record is a dict    *)
(* with the keys in `keys`; engagement_rate and impressions are integers.  *)
(* statistics.mean is kept exact, as the pair [sum, n] of the values.      *)
(***************************************************************************)
\* 'unknown'
UnknownPlatform ==
    <<"u", "n", "k", "n", "o", "w", "n">>

\* entry.get("platform", default).lower()
PlatformOf(entry, default) ==
    Lower(IF "platform" \in entry.keys THEN entry.platform ELSE default)

\* d.get("engagement_rate", 0)
RateOf(entry) == IF "engagement_rate" \in entry.keys THEN entry.engagement_rate ELSE 0

\* d.get("impressions", 0)
ImpressionsOf(entry) == IF "impressions" \in entry.keys THEN entry.impressions ELSE 0

RECURSIVE Sum(_)
Sum(xs) == IF xs = <<>> THEN 0 ELSE xs[1] + Sum(Tail(xs))

SeqMax(xs) == CHOOSE x \in {xs[i] : i \in 1..Len(xs)} : \A i \in 1..Len(xs) : xs[i] <= x
SeqMin(xs) == CHOOSE x \in {xs[i] : i \in 1..Len(xs)} : \A i \in 1..Len(xs) : x <= xs[i]

\* statistics.mean(xs) of a non-empty list
Mean(xs) == [sum |-> Sum(xs), n |-> Len(xs)]

\* a < b and a = b on means
MeanLess(a, b) == a.sum * b.n < b.sum * a.n
MeanEq(a, b) == a.sum * b.n = b.sum * a.n

\* round(a / b): to the nearest integer, a tie to the even one (a >= 0, b > 0)
RoundHalfEven(a, b) ==
    LET q == a \div b
        r == a % b
    IN  IF 2 * r < b THEN q
        ELSE IF 2 * r > b THEN q + 1
        ELSE IF q % 2 = 0 THEN q ELSE q + 1

\* platform_data: the platforms of the history in the order of their first record
PlatformOrder(history) ==
    LET firsts == SelectSeq([i \in 1..Len(history) |-> i],
                      LAMBDA i : \A j \in 1..(i - 1) :
                          PlatformOf(history[j], UnknownPlatform)
                              # PlatformOf(history[i], UnknownPlatform))
    IN  [k \in 1..Len(firsts) |-> PlatformOf(history[firsts[k]], UnknownPlatform)]

\* insights["platforms"][platform] for one platform of platform_data; rated = FALSE
\* when no record of it has a truthy engagement_rate (the platform is then left out)
PlatformStats(history, platform) ==
    LET data  == SelectSeq(history, LAMBDA d : PlatformOf(d, UnknownPlatform) = platform)
        rated == SelectSeq(data, LAMBDA d : RateOf(d) # 0)
        rates == [k \in 1..Len(rated) |-> RateOf(rated[k])]
    IN  [platform       |-> platform,
         rated          |-> rates # <<>>,
         post_count     |-> Len(data),
         avg_engagement |-> IF rates # <<>> THEN Mean(rates) ELSE [sum |-> 0, n |-> 1],
         max_engagement |-> IF rates # <<>> THEN SeqMax(rates) ELSE 0,
         min_engagement |-> IF rates # <<>> THEN SeqMin(rates) ELSE 0]

\* _analyze_historical_performance; platforms keeps the insertion order of the dict
AnalyzeHistoricalPerformance(history) ==
    IF history = <<>>
    THEN [has_data |-> FALSE, total_posts |-> 0, platforms |-> <<>>]
    ELSE LET order == PlatformOrder(history)
             all   == [k \in 1..Len(order) |-> PlatformStats(history, order[k])]
         IN  [has_data    |-> TRUE,
              total_posts |-> Len(history),
              platforms   |-> SelectSeq(all, LAMBDA st : st.rated)]

\* max(platforms.items(), key=lambda x: x[1].get("avg_engagement", 0)): the first of
\* the entries with the largest key
BestPlatform(platforms) ==
    platforms[CHOOSE i \in 1..Len(platforms) :
                  /\ \A j \in 1..Len(platforms) :
                         ~ MeanLess(platforms[i].avg_engagement, platforms[j].avg_engagement)
                  /\ \A j \in 1..(i - 1) :
                         MeanLess(platforms[j].avg_engagement, platforms[i].avg_engagement)]

\* _calculate_metrics; avg_engagement is round(mean, 2) counted in hundredths,
\* avg_impressions is round(mean, 0)
CalculateMetrics(history) ==
    IF history = <<>>
    THEN [keys |-> {"total_posts", "avg_engagement", "total_impressions"},
          total_posts |-> 0, avg_engagement |-> 0, total_impressions |-> 0,
          avg_impressions |-> 0]
    ELSE LET rates == [k \in 1..Len(history) |-> RateOf(history[k])]
             imps  == [k \in 1..Len(history) |-> ImpressionsOf(history[k])]
         IN  [keys |-> {"total_posts", "avg_engagement", "total_impressions",
                        "avg_impressions"},
              total_posts       |-> Len(history),
              avg_engagement    |-> RoundHalfEven(100 * Sum(rates), Len(rates)),
              total_impressions |-> Sum(imps),
              avg_impressions   |-> RoundHalfEven(Sum(imps), Len(imps))]

\* the platforms self.platform_best_practices has an entry for
KnownPractices == {<<"t", "w", "i", "t", "t", "e", "r">>,
                   <<"l", "i", "n", "k", "e", "d", "i", "n">>,
                   <<"i", "n", "s", "t", "a", "g", "r", "a", "m">>,
                   <<"b", "l", "o", "g">>}

\* _get_platform_best_practices: the keys of the dict it returns (each value is the
\* entry of self.platform_best_practices)
GetPlatformBestPractices(history) ==
    LET named == {PlatformOf(history[i], <<>>) : i \in 1..Len(history)} \ {<<>>}
        platforms == IF named = {} THEN {<<"t", "w", "i", "t", "t", "e", "r">>,
                                         <<"l", "i", "n", "k", "e", "d", "i", "n">>}
                     ELSE named
    IN  platforms \cap KnownPractices

\* the text inside the first markdown fence of content, content itself without one
StripFence(content) ==
    LET fence == <<"<backtick>", "<backtick>", "<backtick>">>
        fenceJson == fence \o <<"j", "s", "o", "n">>
    IN  IF Contains(content, fenceJson)
        THEN BeforeFirst(AfterFirst(content, fenceJson), fence)
        ELSE IF Contains(content, fence)
        THEN BeforeFirst(AfterFirst(content, fence), fence)
        ELSE content

\* bool(v) of a decoded value
Truthy(v) ==
    CASE v.t = "str"  -> v.s # <<>>
      [] v.t = "list" -> v.items # <<>>
      [] v.t = "dict" -> v.items # <<>>
      [] v.t = "int"  -> v.s \notin {<<"0">>, <<"-", "0">>}
      [] v.t = "bool" -> v.s = <<"t", "r", "u", "e">>
      [] OTHER        -> FALSE

RECURSIVE PyRepr(_)
\* repr(v) of a decoded value (the texts of this model hold no quote and no backslash)
PyRepr(v) ==
    CASE v.t = "str"  -> <<"'">> \o v.s \o <<"'">>
      [] v.t = "int"  -> IF v.s = <<"-", "0">> THEN <<"0">> ELSE v.s
      [] v.t = "bool" -> IF v.s = <<"t", "r", "u", "e">> THEN <<"T", "r", "u", "e">>
                         ELSE <<"F", "a", "l", "s", "e">>
      [] v.t = "list" ->
            <<"[">> \o Join(<<",", " ">>, [i \in 1..Len(v.items) |-> PyRepr(v.items[i])])
            \o <<"]">>
      [] v.t = "dict" ->
            LET last == SelectSeq([i \in 1..Len(v.keys) |-> i],
                            LAMBDA i : \A j \in (i + 1)..Len(v.keys) : v.keys[j] # v.keys[i])
                names == SelectSeq([i \in 1..Len(v.keys) |-> i],
                            LAMBDA i : \A j \in 1..(i - 1) : v.keys[j] # v.keys[i])
            IN  <<"{">>
                \o Join(<<",", " ">>,
                        [k \in 1..Len(names) |->
                            <<"'">> \o v.keys[names[k]] \o <<"'", ":", " ">>
                            \o PyRepr(DictGet(v, v.keys[names[k]]))])
                \o <<"}">>
      [] OTHER        -> <<"N", "o", "n", "e">>

\* f"{v}"
PyStr(v) == IF v.t = "str" THEN v.s ELSE PyRepr(v)

\* 'Topic analysis for '
TopicAnalysisFor ==
    <<"T", "o", "p", "i", "c", " ", "a", "n", "a", "l", "y", "s", "i", "s", " ", "f", "o", "r",
      " ">>

\* ' shows potential for engagement'
ShowsPotential ==
    <<" ", "s", "h", "o", "w", "s", " ", "p", "o", "t", "e", "n", "t", "i", "a", "l", " ", "f",
      "o", "r", " ", "e", "n", "g", "a", "g", "e", "m", "e", "n", "t">>

\* 'Growing audience interest'
GrowingAudienceInterest ==
    <<"G", "r", "o", "w", "i", "n", "g", " ", "a", "u", "d", "i", "e", "n", "c", "e", " ", "i",
      "n", "t", "e", "r", "e", "s", "t">>

\* 'Multiple content angles available'
MultipleAngles ==
    <<"M", "u", "l", "t", "i", "p", "l", "e", " ", "c", "o", "n", "t", "e", "n", "t", " ", "a",
      "n", "g", "l", "e", "s", " ", "a", "v", "a", "i", "l", "a", "b", "l", "e">>

\* 'Create engaging content'
CreateEngagingContent ==
    <<"C", "r", "e", "a", "t", "e", " ", "e", "n", "g", "a", "g", "i", "n", "g", " ", "c", "o",
      "n", "t", "e", "n", "t">>

\* 'Leverage multiple platforms'
LeveragePlatforms ==
    <<"L", "e", "v", "e", "r", "a", "g", "e", " ", "m", "u", "l", "t", "i", "p", "l", "e", " ",
      "p", "l", "a", "t", "f", "o", "r", "m", "s">>

\* 'AI analysis indicates growing interest in '
GrowingInterestIn ==
    <<"A", "I", " ", "a", "n", "a", "l", "y", "s", "i", "s", " ", "i", "n", "d", "i", "c", "a",
      "t", "e", "s", " ", "g", "r", "o", "w", "i", "n", "g", " ", "i", "n", "t", "e", "r", "e",
      "s", "t", " ", "i", "n", " ">>

\* 'Create timely, relevant content'
CreateTimelyContent ==
    <<"C", "r", "e", "a", "t", "e", " ", "t", "i", "m", "e", "l", "y", ",", " ", "r", "e", "l",
      "e", "v", "a", "n", "t", " ", "c", "o", "n", "t", "e", "n", "t">>

\* 'Analysis for '
AnalysisFor ==
    <<"A", "n", "a", "l", "y", "s", "i", "s", " ", "f", "o", "r", " ">>

\* content[:200]
TrendExcerpt == 200

\* the dict of the outer except branch
\* an except branch that returns nothing: the caller gets None
DefaultTrendAnalysisNone(topic) == Atom("none", <<>>)

DefaultTrendAnalysis(topic) ==
    DictVal(<<[k |-> <<"s", "u", "m", "m", "a", "r", "y">>,
               v |-> Str(TopicAnalysisFor \o topic \o ShowsPotential)],
              [k |-> <<"t", "r", "e", "n", "d", "s">>,
               v |-> ListVal(<<Str(GrowingAudienceInterest), Str(MultipleAngles)>>)],
              [k |-> <<"o", "p", "p", "o", "r", "t", "u", "n", "i", "t", "i", "e", "s">>,
               v |-> ListVal(<<Str(CreateEngagingContent), Str(LeveragePlatforms)>>)]>>)

\* the dict of the json.JSONDecodeError branch
FallbackTrendAnalysis(topic, content) ==
    DictVal(<<[k |-> <<"s", "u", "m", "m", "a", "r", "y">>,
               v |-> Str(GrowingInterestIn \o topic)],
              [k |-> <<"t", "r", "e", "n", "d", "s">>,
               v |-> ListVal(<<Str(Take(content, TrendExcerpt))>>)],
              [k |-> <<"o", "p", "p", "o", "r", "t", "u", "n", "i", "t", "i", "e", "s">>,
               v |-> ListVal(<<Str(CreateTimelyContent)>>)]>>)

\* _get_ai_trend_analysis: whatever json.loads decodes is returned as it is; a None
\* content is a TypeError of the `in` test, which the outer except takes
GetAiTrendAnalysis(topic, reply) ==
    IF reply.kind # "text" THEN DefaultTrendAnalysis(topic)
    ELSE LET content == StripFence(reply.text)
             p == JsonLoads(Strip(content))
         IN  IF p.ok THEN p.val ELSE FallbackTrendAnalysis(topic, content)

\* line.strip('- <bullet>123456789.')
RecStripChars == {"-", " ", "<bullet>", "1", "2", "3", "4", "5", "6", "7", "8", "9", "."}

\* len(line) > 20
MinRecLength == 20
\* [...][:5]
MaxRecLines == 5
\* ai_recs[:3]
MaxAiRecs == 3
\* trend_analysis["opportunities"][:2] and trend_analysis.get('trends', [])[:2]
MaxOpportunities == 2
\* recommendations[:10]
MaxRecommendations == 10

\* _get_ai_recommendations: a decoded list as it is, else the long lines of the text
GetAiRecommendations(reply) ==
    IF reply.kind # "text" THEN <<>>
    ELSE LET content == StripFence(reply.text)
             p == JsonLoads(Strip(content))
             lines == SelectSeq(SplitOn(content, "\n"), LAMBDA l : Strip(l) # <<>>)
             clean == [k \in 1..Len(lines) |-> Strip(StripChars(lines[k], RecStripChars))]
             long  == SelectSeq(clean, LAMBDA l : Len(l) > MinRecLength)
         IN  IF p.ok /\ p.val.t = "list" THEN p.val.items
             ELSE [k \in 1..Min(MaxRecLines, Len(long)) |-> Str(long[k])]

\* ' shows highest engagement - prioritize this platform'
ShowsHighestEngagement ==
    <<" ", "s", "h", "o", "w", "s", " ", "h", "i", "g", "h", "e", "s", "t", " ", "e", "n", "g",
      "a", "g", "e", "m", "e", "n", "t", " ", "-", " ", "p", "r", "i", "o", "r", "i", "t", "i",
      "z", "e", " ", "t", "h", "i", "s", " ", "p", "l", "a", "t", "f", "o", "r", "m">>

\* '<chart> Test different posting times to optimize reach'
TestPostingTimes ==
    <<"<chart>", " ", "T", "e", "s", "t", " ", "d", "i", "f", "f", "e", "r", "e", "n", "t",
      " ", "p", "o", "s", "t", "i", "n", "g", " ", "t", "i", "m", "e", "s", " ", "t", "o", " ",
      "o", "p", "t", "i", "m", "i", "z", "e", " ", "r", "e", "a", "c", "h">>

\* '<uptrend> Start tracking performance metrics to optimize future content'
StartTracking ==
    <<"<uptrend>", " ", "S", "t", "a", "r", "t", " ", "t", "r", "a", "c", "k", "i", "n", "g",
      " ", "p", "e", "r", "f", "o", "r", "m", "a", "n", "c", "e", " ", "m", "e", "t", "r", "i",
      "c", "s", " ", "t", "o", " ", "o", "p", "t", "i", "m", "i", "z", "e", " ", "f", "u", "t",
      "u", "r", "e", " ", "c", "o", "n", "t", "e", "n", "t">>

\* '<magnifier> Focus content on these trends: '
FocusOnTrends ==
    <<"<magnifier>", " ", "F", "o", "c", "u", "s", " ", "c", "o", "n", "t", "e", "n", "t", " ",
      "o", "n", " ", "t", "h", "e", "s", "e", " ", "t", "r", "e", "n", "d", "s", ":", " ">>

\* '<clock> Post during peak engagement hours for your target platform'
PostDuringPeak ==
    <<"<clock>", " ", "P", "o", "s", "t", " ", "d", "u", "r", "i", "n", "g", " ", "p", "e",
      "a", "k", " ", "e", "n", "g", "a", "g", "e", "m", "e", "n", "t", " ", "h", "o", "u", "r",
      "s", " ", "f", "o", "r", " ", "y", "o", "u", "r", " ", "t", "a", "r", "g", "e", "t", " ",
      "p", "l", "a", "t", "f", "o", "r", "m">>

\* '<frame><vs16> Always include high-quality visuals for 2x more engagement'
IncludeVisuals ==
    <<"<frame>", "<vs16>", " ", "A", "l", "w", "a", "y", "s", " ", "i", "n", "c", "l", "u",
      "d", "e", " ", "h", "i", "g", "h", "-", "q", "u", "a", "l", "i", "t", "y", " ", "v", "i",
      "s", "u", "a", "l", "s", " ", "f", "o", "r", " ", "2", "x", " ", "m", "o", "r", "e", " ",
      "e", "n", "g", "a", "g", "e", "m", "e", "n", "t">>

KeyOpportunities == <<"o", "p", "p", "o", "r", "t", "u", "n", "i", "t", "i", "e", "s">>
KeyTrends == <<"t", "r", "e", "n", "d", "s">>
KeySummary == <<"s", "u", "m", "m", "a", "r", "y">>

\* d.get(key, default) of a decoded dict
GetOr(d, key, default) == IF HasKey(d, key) THEN DictGet(d, key) ELSE default

\* v[:n] of a decoded value; ok = FALSE stands for the TypeError of a value that
\* cannot be sliced.  A slice of a str is iterated code point by code point.
SliceOf(v, n) ==
    CASE v.t = "list" -> [ok |-> TRUE, items |-> Take(v.items, n)]
      [] v.t = "str"  -> [ok |-> TRUE,
                          items |-> [i \in 1..Min(n, Len(v.s)) |-> Str(<<v.s[i]>>)]]
      [] OTHER        -> [ok |-> FALSE, items |-> <<>>]

\* f"<target> {name.title()} shows highest engagement - prioritize this platform"
BestPlatformCallout(name) == <<"<target>", " ">> \o Title(name) \o ShowsHighestEngagement

\* the entries of the has_data branch and of its else branch
PerformanceEntries(perf) ==
    IF perf.has_data
    THEN (IF perf.platforms # <<>>
          THEN <<Str(BestPlatformCallout(BestPlatform(perf.platforms).platform))>>
          ELSE <<>>)
         \o <<Str(TestPostingTimes)>>
    ELSE <<Str(StartTracking)>>

RecsRaise == [raised |-> TRUE, list |-> <<>>]
RecsReturn(list) == [raised |-> FALSE, list |-> list]

\* the list in the order the specification gives: opportunities, callout, the two
\* static tips, AI recommendations
GenerateRecommendationsBrief(perf, trend, aiRecs) ==
    IF trend.t # "dict" THEN RecsRaise
    ELSE LET opps == SliceOf(GetOr(trend, KeyOpportunities, ListVal(<<>>)), MaxOpportunities)
         IN  RecsReturn(Take(
                 [i \in 1..Len(opps.items) |-> Str(<<"<bulb>", " ">> \o PyStr(opps.items[i]))]
                 \o (IF perf.has_data /\ perf.platforms # <<>>
                     THEN <<Str(BestPlatformCallout(BestPlatform(perf.platforms).platform))>>
                     ELSE <<>>)
                 \o <<Str(PostDuringPeak), Str(IncludeVisuals)>>
                 \o Take(aiRecs, MaxAiRecs),
                 MaxRecommendations))

\* _generate_recommendations, aiRecs being what _get_ai_recommendations returns;
\* raised stands for the AttributeError of a trend analysis that is no dict and the
\* TypeError of an entry that cannot be sliced or joined
GenerateRecommendations(perf, trend, aiRecs) ==
    IF trend.t # "dict" THEN RecsRaise
    ELSE LET oppsVal == GetOr(trend, KeyOpportunities, ListVal(<<>>))
             opps    == IF Truthy(oppsVal) THEN SliceOf(oppsVal, MaxOpportunities)
                        ELSE [ok |-> TRUE, items |-> <<>>]
             trends  == SliceOf(GetOr(trend, KeyTrends, ListVal(<<>>)), MaxOpportunities)
             joined  == Join(<<",", " ">>,
                             [i \in 1..Len(trends.items) |-> trends.items[i].s])
         IN  IF ~ opps.ok \/ ~ trends.ok
                \/ \E i \in 1..Len(trends.items) : trends.items[i].t # "str"
             THEN RecsRaise
             ELSE RecsReturn(Take(
                      [i \in 1..Len(opps.items) |->
                          Str(<<"<bulb>", " ">> \o PyStr(opps.items[i]))]
                      \o PerformanceEntries(perf)
                      \o <<Str(FocusOnTrends \o joined)>>
                      \o <<Str(PostDuringPeak), Str(IncludeVisuals)>>
                      \o Take(aiRecs, MaxAiRecs),
                      MaxRecommendations))

NotAnalyzed ==
    [returned |-> FALSE, raised |-> FALSE, topic |-> <<>>, summary |-> Atom("none", <<>>),
     recommendations |-> <<>>, metrics |-> CalculateMetrics(<<>>),
     trends |-> Atom("none", <<>>), best_practices |-> {}, analyzed_at |-> 0]

\* analyze_trends left by an exception
AnalyzeRaises == [NotAnalyzed EXCEPT !.raised = TRUE]

\* analyze_trends
AnalyzeTrends(topic, history, trendReply, recsReply, now) ==
    LET perf  == AnalyzeHistoricalPerformance(history)
        trend == GetAiTrendAnalysis(topic, trendReply)
        recs  == GenerateRecommendations(perf, trend, GetAiRecommendations(recsReply))
    IN  IF recs.raised THEN AnalyzeRaises
        ELSE [returned        |-> TRUE,
              raised          |-> FALSE,
              topic           |-> topic,
              summary         |-> GetOr(trend, KeySummary, Str(AnalysisFor \o topic)),
              recommendations |-> recs.list,
              metrics         |-> CalculateMetrics(history),
              trends          |-> GetOr(trend, KeyTrends, ListVal(<<>>)),
              best_practices  |-> GetPlatformBestPractices(history),
              analyzed_at     |-> now]

(***************************************************************************)
(* json.dumps, and the research bundle as the JSON value json.dumps sees   *)
(* (the texts of this model hold no quote, backslash, control character or *)
(* non-ASCII code point, so nothing is escaped)                            *)
(***************************************************************************)
RECURSIVE JsonDumpsValue(_)
\* json.dumps(v)
JsonDumpsValue(v) ==
    CASE v.t = "str"  -> Quoted(v.s)
      [] v.t = "int"  -> v.s
      [] v.t = "bool" -> v.s
      [] v.t = "list" ->
            <<"[">>
            \o Join(<<",", " ">>, [i \in 1..Len(v.items) |-> JsonDumpsValue(v.items[i])])
            \o <<"]">>
      [] v.t = "dict" ->
            <<"{">>
            \o Join(<<",", " ">>,
                    [i \in 1..Len(v.items) |->
                        Quoted(v.keys[i]) \o <<":", " ">> \o JsonDumpsValue(v.items[i])])
            \o <<"}">>
      [] OTHER        -> <<"n", "u", "l", "l">>

\* the code points of a key
Chars(name) ==
    CASE name = "arxiv" -> <<"a", "r", "x", "i", "v">>
      [] name = "web" -> <<"w", "e", "b">>
      [] name = "youtube" -> <<"y", "o", "u", "t", "u", "b", "e">>
      [] name = "title" -> <<"t", "i", "t", "l", "e">>
      [] name = "authors" -> <<"a", "u", "t", "h", "o", "r", "s">>
      [] name = "summary" -> <<"s", "u", "m", "m", "a", "r", "y">>
      [] name = "published" -> <<"p", "u", "b", "l", "i", "s", "h", "e", "d">>
      [] name = "url" -> <<"u", "r", "l">>
      [] name = "categories" -> <<"c", "a", "t", "e", "g", "o", "r", "i", "e", "s">>
      [] name = "snippet" -> <<"s", "n", "i", "p", "p", "e", "t">>
      [] name = "source" -> <<"s", "o", "u", "r", "c", "e">>
      [] name = "id" -> <<"i", "d">>
      [] name = "label" -> <<"l", "a", "b", "e", "l">>
      [] name = "type" -> <<"t", "y", "p", "e">>
      [] name = "nodes" -> <<"n", "o", "d", "e", "s">>
      [] name = "edges" -> <<"e", "d", "g", "e", "s">>
      [] name = "metadata" -> <<"m", "e", "t", "a", "d", "a", "t", "a">>
      [] name = "created_at" -> <<"c", "r", "e", "a", "t", "e", "d", "_", "a", "t">>
      [] name = "total_sources" -> <<"t", "o", "t", "a", "l", "_", "s", "o", "u", "r", "c", "e", "s">>

Member(name, value) == [k |-> Chars(name), v |-> value]

IntVal(n) == Atom("int", IntStr(n))

\* the keys of an item in the order the connector wrote them
ItemKeyOrder(kind) ==
    IF kind = "arxiv"
    THEN <<"title", "authors", "summary", "published", "url", "categories">>
    ELSE <<"title", "snippet", "url", "source">>

\* the value under one key of an item; the values the model does not follow
\* (authors, published, categories) are written empty
ItemValue(kind, item, key) ==
    CASE key = "title"                 -> Str(item.title)
      [] key \in {"summary", "snippet"} -> Str(item.body)
      [] key = "url"                   -> Str(item.url)
      [] key = "source"                -> Str(Chars(kind))
      [] key = "published"             -> Str(<<>>)
      [] OTHER                         -> ListVal(<<>>)

ItemJson(kind, item) ==
    LET present == SelectSeq(ItemKeyOrder(kind), LAMBDA key : key \in item.keys)
    IN  DictVal([i \in 1..Len(present) |->
                     Member(present[i], ItemValue(kind, item, present[i]))])

\* results["sources"]
SourcesJson(sources) ==
    DictVal([k \in 1..Len(sources) |->
                 Member(sources[k].kind,
                        ListVal([i \in 1..Len(sources[k].items) |->
                                     ItemJson(sources[k].kind, sources[k].items[i])]))])

\* results["key_insights"]
InsightsJson(insights) ==
    IF insights.kind = "list" THEN ListVal(insights.val) ELSE Atom("none", <<>>)

NodeJson(node) ==
    DictVal(<<Member("id", IntVal(node.id)), Member("label", Str(node.label)),
              Member("type", Str(Chars(node.type))), Member("url", Str(node.url))>>)

\* results["knowledge_graph"]; the instant of created_at is written by its number
GraphJson(graph) ==
    IF ~ graph.made THEN Atom("none", <<>>)
    ELSE DictVal(<<Member("nodes", ListVal([i \in 1..Len(graph.nodes) |->
                                                 NodeJson(graph.nodes[i])])),
                   Member("edges", ListVal(<<>>)),
                   Member("metadata",
                          DictVal(<<Member("created_at", Str(IntStr(graph.created_at))),
                                    Member("total_sources",
                                           IntVal(graph.total_sources))>>))>>)

(***************************************************************************)
(* DatabaseManager (database_manager.py).  Every operation opens its own   *)
(* connection; `fault` is where the store fails during the call: on        *)
(* sqlite3.connect, on an execute, on the commit, or nowhere.  created_at  *)
(* is CURRENT_TIMESTAMP, a count of whole seconds.                         *)
(***************************************************************************)
Faults == {"none", "connect", "execute", "commit"}

\* the outcome of one operation: the tables after it, whether it raised, and the
\* value returned (id, ids, rows or bundle, by operation)
Outcome(db, raised) ==
    [db |-> db, raised |-> raised, ret |-> 0, ids |-> <<>>, rows |-> <<>>, found |-> FALSE,
     bundle |-> NoneBundle]

NoTables == [research |-> <<>>, content |-> <<>>, performance |-> <<>>]

\* the row store_research inserts: the three structured columns as json.dumps text
ResearchRow(id, bundle, now) ==
    [id              |-> id,
     topic           |-> bundle.topic,
     sources         |-> JsonDumpsValue(SourcesJson(bundle.sources)),
     insights        |-> JsonDumpsValue(InsightsJson(bundle.key_insights)),
     knowledge_graph |-> JsonDumpsValue(GraphJson(bundle.knowledge_graph)),
     timestamp       |-> bundle.timestamp,
     created_at      |-> now]

\* return -1 after the rollback
StoreFailed == -1

\* store_research on the research table alone; the connect is outside the try
StoreResearch(rows, bundle, fault, now) ==
    IF fault = "connect" THEN [rows |-> rows, raised |-> TRUE, ret |-> 0]
    ELSE IF fault # "none" THEN [rows |-> rows, raised |-> FALSE, ret |-> StoreFailed]
    ELSE [rows   |-> Append(rows, ResearchRow(Len(rows) + 1, bundle, now)),
          raised |-> FALSE,
          ret    |-> Len(rows) + 1]

\* topic LIKE '%<topic>%' for a topic without % and _: ASCII case is ignored
Like(rowTopic, topic) == Contains(Lower(rowTopic), Lower(topic))

\* the rows ORDER BY created_at DESC LIMIT 1 may give: SQL leaves the order of the
\* rows of one second open
LatestMatches(rows, topic) ==
    LET hits == {i \in 1..Len(rows) : Like(rows[i].topic, topic)}
    IN  {i \in hits : \A j \in hits : rows[j].created_at <= rows[i].created_at}

RowKeys == {"id", "topic", "sources", "insights", "knowledge_graph", "timestamp", "created_at"}

\* the kind a key of the decoded sources names
KindNamed(chars) == CHOOSE kind \in {"arxiv", "web", "youtube"} : Chars(kind) = chars

\* json.loads(column) if column else default
LoadColumn(text, default) ==
    IF text = <<>> THEN JsonOk(default, 0) ELSE JsonLoads(text)

\* the dict get_research_by_topic builds from a row, read as research_data: its keys
\* are the column names, so it has "insights" and no "key_insights"; ok = FALSE
\* stands for an exception of json.loads
DecodeRow(row) ==
    LET sources  == LoadColumn(row.sources, DictVal(<<>>))
        insights == LoadColumn(row.insights, ListVal(<<>>))
        graph    == LoadColumn(row.knowledge_graph, DictVal(<<>>))
    IN  [ok     |-> sources.ok /\ insights.ok /\ graph.ok,
         bundle |-> [isNone |-> FALSE, keys |-> RowKeys, topic |-> row.topic,
                     insightsNone |-> FALSE, key_insights |-> <<>>,
                     sources |-> IF sources.val.t = "dict"
                                 THEN [k \in 1..Len(sources.val.keys) |->
                                          Entry(KindNamed(sources.val.keys[k]),
                                                sources.val.items[k].items)]
                                 ELSE <<>>,
                     timestamp |-> row.timestamp,
                     id |-> row.id, sourcesJson |-> sources.val,
                     insights |-> insights.val, knowledge_graph |-> graph.val,
                     created_at |-> row.created_at]]

\* get_research_by_topic when the query gives the row `pick` (0: no row)
GetResearchByTopic(db, pick, fault) ==
    IF fault = "connect" THEN Outcome(db, TRUE)
    ELSE IF fault # "none" \/ pick = 0 THEN Outcome(db, FALSE)
    ELSE LET d == DecodeRow(db.research[pick])
         IN  IF d.ok THEN [Outcome(db, FALSE) EXCEPT !.found = TRUE, !.bundle = d.bundle]
             ELSE Outcome(db, FALSE)

\* the row store_content inserts for one platform of the package
ContentRow(id, research_id, piece, now) ==
    [id |-> id, research_id |-> research_id, platform |-> piece.platform,
     content_text |-> piece.text, created_at |-> now]

\* a connection's transaction: the tables as committed, the tables as this
\* connection sees them, and the ids of the rows it has inserted
Begin(db) == [committed |-> db, work |-> db, ids |-> <<>>]

\* cursor.execute("INSERT INTO content ..."); cursor.lastrowid
InsertContent(tx, research_id, piece, now) ==
    LET id == Len(tx.work.content) + 1
    IN  [tx EXCEPT !.work.content = Append(@, ContentRow(id, research_id, piece, now)),
                   !.ids = Append(@, id)]

\* the inserts of the first n platforms of the package, in the package's order
RECURSIVE InsertAll(_, _, _, _, _)
InsertAll(tx, package, n, research_id, now) ==
    IF n = 0 THEN tx
    ELSE InsertContent(InsertAll(tx, package, n - 1, research_id, now), research_id,
                       package[n], now)

\* conn.rollback()
Rollback(tx) == tx.committed

\* conn.commit()
Commit(tx) == tx.work

\* store_content when the fault, if it is one of an execute, strikes at the insert of
\* the failAt-th platform; a package without platforms executes nothing
StoreContent(db, package, research_id, fault, failAt, now) ==
    IF fault = "connect" THEN Outcome(db, TRUE)
    ELSE LET atInsert == fault = "execute" /\ failAt \in 1..Len(package)
             done     == IF atInsert THEN failAt - 1 ELSE Len(package)
             tx       == InsertAll(Begin(db), package, done, research_id, now)
         IN  IF atInsert \/ fault = "commit"
             THEN Outcome(Rollback(tx), FALSE)
             ELSE [Outcome(Commit(tx), FALSE) EXCEPT !.ids = tx.ids]

\* the row store_performance inserts
PerformanceRow(id, content_id, record, now) ==
    [id |-> id, content_id |-> content_id,
     platform |-> IF "platform" \in record.keys THEN record.platform ELSE <<>>,
     engagement_rate |-> RateOf(record), impressions |-> ImpressionsOf(record),
     created_at |-> now]

\* store_performance: nothing is returned
StorePerformance(db, record, content_id, fault, now) ==
    IF fault = "connect" THEN Outcome(db, TRUE)
    ELSE IF fault # "none" THEN Outcome(db, FALSE)
    ELSE Outcome([db EXCEPT !.performance =
                     Append(@, PerformanceRow(Len(@) + 1, content_id, record, now))],
                 FALSE)

\* LIMIT 50
PerformanceLimit == 50

\* the dict get_historical_performance makes of a row
PerformanceDict(row) ==
    [keys |-> {"id", "content_id", "platform", "likes", "shares", "comments",
               "impressions", "engagement_rate", "post_date", "created_at"},
     platform |-> row.platform, engagement_rate |-> row.engagement_rate,
     impressions |-> row.impressions]

\* get_historical_performance when the query gives the rows in `order`
GetHistoricalPerformance(db, order, fault) ==
    IF fault = "connect" THEN Outcome(db, TRUE)
    ELSE IF fault # "none" THEN Outcome(db, FALSE)
    ELSE LET shown == Take(order, PerformanceLimit)
         IN  [Outcome(db, FALSE) EXCEPT
                  !.rows = [k \in 1..Len(shown) |-> PerformanceDict(db.performance[shown[k]])]]

\* the orders ORDER BY created_at DESC may give the rows of `platform` (all rows
\* when platform is empty)
PerformanceOrders(db, platform) ==
    LET hits == {i \in 1..Len(db.performance) :
                     platform = <<>> \/ db.performance[i].platform = platform}
    IN  { order \in [1..Cardinality(hits) -> hits] :
              /\ \A i, j \in 1..Len(order) : i # j => order[i] # order[j]
              /\ \A i, j \in 1..Len(order) :
                     i < j => db.performance[order[i]].created_at
                                  >= db.performance[order[j]].created_at }

\* export_data: the returned text is followed by the number of rows of each table it
\* lists; ret = -1 stands for the text "{}" of the except branch
ExportData(db, fault) ==
    IF fault = "connect" THEN Outcome(db, TRUE)
    ELSE IF fault # "none" THEN [Outcome(db, FALSE) EXCEPT !.ret = -1]
    ELSE [Outcome(db, FALSE) EXCEPT
              !.ids = <<Len(db.research), Len(db.content), Len(db.performance)>>]

\* a bundle of research_topic as generate_for_platform reads it: every insight goes
\* into an f-string
ResearchData(bundle) ==
    [DictBundle(BundleKeys, bundle.topic,
                [i \in 1..Len(bundle.key_insights.val) |-> PyStr(bundle.key_insights.val[i])],
                bundle.sources, bundle.timestamp)
     EXCEPT !.insightsNone = bundle.key_insights.kind # "list"]

\* one call of an operation and what it gave its caller
CallOf(op, fault, topic, stored, before, out) ==
    [op |-> op, fault |-> fault, topic |-> topic, stored |-> stored, before |-> before,
     raised |-> out.raised, ret |-> out.ret, ids |-> out.ids, rows |-> out.rows,
     found |-> out.found, bundle |-> out.bundle]

NoCall == CallOf("none", "none", <<>>, NoneBundle, NoTables, Outcome(NoTables, FALSE))

(***************************************************************************)
(* The constructors of the three agents that talk to the hosted model.     *)
(* A module's global names are those its import statements bind; looking   *)
(* up a name that is neither global nor builtin raises NameError.          *)
(***************************************************************************)
AgentClasses == {"ResearchAgent", "AnalyticsAgent", "ContentCreator"}

\* the names the import statements at the top of each class's module bind
ModuleGlobals(cls) ==
    CASE cls = "ResearchAgent" ->
             {"arxiv", "DDGS", "openai", "List", "Dict", "Optional", "requests", "datetime",
              "json"}
      [] cls = "AnalyticsAgent" ->
             {"os", "openai", "Dict", "List", "Optional", "json", "datetime", "timedelta",
              "statistics"}
      [] cls = "ContentCreator" ->
             {"os", "openai", "Dict", "Optional", "Image", "ImageDraw", "ImageFont", "io",
              "json", "random"}

CredentialName == "OPENROUTER_API_KEY"
PlaceholderKey == "your-key-here"
OpenRouterUrl == "https://openrouter.ai/api/v1"
ModelId == "google/gemini-2.0-flash-exp:free"

\* os.getenv(name, default) on the environment env, a set of name-value pairs
Getenv(env, name, default) ==
    IF \E e \in env : e.name = name
    THEN (CHOOSE e \in env : e.name = name).value
    ELSE default

\* an agent as __init__ leaves it: the attributes set, and their values
NoAgent == [attrs |-> {}, base_url |-> "", api_key |-> "", model |-> ""]

\* the outcome of a constructor call: the object bound, or the exception raised
NoConstruct == [cls |-> "", raised |-> FALSE, error |-> "", agent |-> NoAgent]

\* cls(): the names openai and os are looked up while the arguments of
\* openai.OpenAI(...) are evaluated, before any attribute is set
Construct(cls, env) ==
    LET missing == {"openai", "os"} \ ModuleGlobals(cls)
    IN  IF missing # {}
        THEN [cls |-> cls, raised |-> TRUE, error |-> "NameError", agent |-> NoAgent]
        ELSE [cls |-> cls, raised |-> FALSE, error |-> "",
              agent |-> [attrs    |-> {"client", "model"},
                         base_url |-> OpenRouterUrl,
                         api_key  |-> Getenv(env, CredentialName, PlaceholderKey),
                         model    |-> ModelId]]

\* a request made through an agent's client: the provider turns down every key it
\* did not issue, and the request then raises inside the caller's try block
NoModelRequest == [cls |-> "", api_key |-> "", failed |-> FALSE]

ChatCompletion(cls, agent, issued) ==
    [cls |-> cls, api_key |-> agent.api_key, failed |-> agent.api_key \notin issued]

(***************************************************************************)
(* The objects the component calls share: the arguments handed to them and *)
(* the tables built at construction.  An object is its value when it was   *)
(* made and the writes made to it since; a call's writes are the           *)
(* statements of its body that store into a container (append, extend,     *)
(* add, subscript assignment), each naming the object it stores into.      *)
(***************************************************************************)
\* self.platform_specs as ContentCreator.__init__ builds it
PlatformSpecsTable ==
    [p \in SpecPlatforms |->
        [keys |-> {"max_length", "style", "format"}, max_length |-> PlatformMaxLength(p)]]

\* self.platform_best_practices as AnalyticsAgent.__init__ builds it
BestPracticesTable ==
    [p \in KnownPractices |-> [keys |-> {"optimal_length", "best_times", "hashtags", "media"}]]

Object(value) == [value |-> value, writes |-> <<>>]

SharedObjects ==
    {"sources", "research_data", "historical_data", "platform_specs",
     "platform_best_practices"}

\* one store into the container `object`, made at `line` of the method's file
Write(object, line) == [object |-> object, line |-> line]

\* n stores of the same statement
Repeat(n, w) == [k \in 1..n |-> w]

\* a store into a container of the call's own leaves the shared objects alone
ApplyWrite(heap, w) ==
    IF w.object \in SharedObjects
    THEN [heap EXCEPT ![w.object].writes = Append(@, w.line)]
    ELSE heap

RECURSIVE ApplyWrites(_, _)
ApplyWrites(heap, ws) ==
    IF ws = <<>> THEN heap ELSE ApplyWrites(ApplyWrite(heap, ws[1]), Tail(ws))

\* extract_insights: all_content.append(...) once per item
WritesExtractInsights(sources) ==
    Repeat(Len(AllContent(sources)), Write("all_content", 91))

\* create_knowledge_graph: graph["nodes"].append(...) once per node; items[:5] is a
\* new list
WritesCreateKnowledgeGraph(sources) ==
    Repeat(Len(GraphNodes(sources, FirstNodeId)), Write("graph", 153))

\* generate_for_platform: nothing before the empty-topic return; otherwise
\* _build_context appends to context_parts, and the records returned are new dicts
WritesGenerateForPlatform(b, platform, outcome) ==
    IF NeedsResearch(b) THEN <<>>
    ELSE LET insights == IF HasInsights(b) THEN b.key_insights ELSE <<>>
         IN  (IF insights # <<>>
              THEN <<Write("context_parts", 104)>>
                   \o Repeat(Min(5, Len(insights)), Write("context_parts", 106))
              ELSE <<>>)
             \o <<Write("context_parts", 110)>>

\* _get_platform_best_practices with the table itself as the dict it fills
WritesBestPracticesIntoTable(history) ==
    Repeat(Cardinality({i \in 1..Len(history) : PlatformOf(history[i], <<>>) # <<>>}),
           Write("platforms", 276))
    \o Repeat(Cardinality(GetPlatformBestPractices(history)),
              Write("platform_best_practices", 284))

\* _get_platform_best_practices: platforms.add(...) per named entry, and
\* best_practices[platform] = ... per known platform, into a new dict
WritesBestPractices(history) ==
    Repeat(Cardinality({i \in 1..Len(history) : PlatformOf(history[i], <<>>) # <<>>}),
           Write("platforms", 276))
    \o Repeat(Cardinality(GetPlatformBestPractices(history)), Write("best_practices", 284))

\* analyze_trends: the grouping of _analyze_historical_performance, the list of
\* _generate_recommendations, and _get_platform_best_practices when it is reached
WritesAnalyzeTrends(topic, history, trendReply, recsReply) ==
    LET perf == AnalyzeHistoricalPerformance(history)
        recs == GenerateRecommendations(perf, GetAiTrendAnalysis(topic, trendReply),
                                        GetAiRecommendations(recsReply))
    IN  Repeat(Len(PlatformOrder(history)), Write("platform_data", 92))
        \o Repeat(Len(history), Write("platform_data", 93))
        \o Repeat(Len(perf.platforms), Write("insights", 100))
        \o (IF recs.raised THEN <<>>
            ELSE Repeat(Len(recs.list), Write("recommendations", 175))
                 \o WritesBestPractices(history))

\* what the latest call was, the objects before it and the stores it made
NoInvocation == [method |-> "none", path |-> "", writes |-> <<>>]

Invocation(method, path, writes) == [method |-> method, path |-> path, writes |-> writes]

(***************************************************************************)
(* ContentFlowAI.generate_content: the loop over the requested platforms   *)
(* and the store of the package                                            *)
(***************************************************************************)
\* research_data["topic"]: a KeyError when the dict has no such key
SubscriptRaises(b, key) == key \notin b.keys

\* generate_image: the path of the file saved, or None when anything in it failed
GenerateImage(topic, saved) ==
    IF saved THEN [kind |-> "path", topic |-> topic] ELSE [kind |-> "none", topic |-> <<>>]

\* a content dict without the key "image"
NoImage == [kind |-> "absent", topic |-> <<>>]

\* content_package["platforms"][platform] = content: a new key goes last, a key
\* already there keeps its place
DictSet(platforms, platform, content, image) ==
    LET entry == [platform |-> platform, text |-> content.text, content |-> content,
                  image |-> image]
        at    == {k \in 1..Len(platforms) : platforms[k].platform = platform}
    IN  IF at = {} THEN Append(platforms, entry)
        ELSE [k \in 1..Len(platforms) |-> IF k \in at THEN entry ELSE platforms[k]]

\* one pass of the loop body for `platform`: [raised, platforms]
GenerateContentStep(research_data, platforms, platform, tone, include_image, outcome, saved) ==
    LET content == GenerateForPlatform(research_data, platform, tone, outcome).ret
    IN  IF content.kind = "raise" THEN [raised |-> TRUE, platforms |-> platforms]
        ELSE IF ~ include_image
        THEN [raised |-> FALSE, platforms |-> DictSet(platforms, platform, content, NoImage)]
        ELSE IF SubscriptRaises(research_data, "topic")
        THEN [raised |-> TRUE, platforms |-> platforms]
        ELSE [raised |-> FALSE,
              platforms |-> DictSet(platforms, platform, content,
                                    GenerateImage(research_data.topic, saved))]

\* generate_content's result: whether it raised, the package returned, whether
\* store_content was called and the fault it met
NoPackage == [raised |-> FALSE, platforms |-> <<>>, stored |-> FALSE, fault |-> "none"]

(***************************************************************************)
(* ContentFlowAI.research_topic, statement by statement; every call it     *)
(* makes blocks until it has returned                                      *)
(***************************************************************************)
\* 'Please enter a topic to research'
PleaseEnterTopic ==
    <<"P", "l", "e", "a", "s", "e", " ", "e", "n", "t", "e", "r", " ", "a", " ", "t", "o", "p",
      "i", "c", " ", "t", "o", " ", "r", "e", "s", "e", "a", "r", "c", "h">>

\* research_topic with the store written before the graph is built
StageAfterStoreEarly(pc) ==
    CASE pc = "arxiv"    -> "web"
      [] pc = "web"      -> "youtube"
      [] pc = "youtube"  -> "insights"
      [] pc = "insights" -> "store"
      [] pc = "store"    -> "graph"
      [] pc = "graph"    -> "done"

\* the statement that follows each statement of research_topic
StageAfter(pc) ==
    CASE pc = "arxiv"    -> "web"
      [] pc = "web"      -> "youtube"
      [] pc = "youtube"  -> "insights"
      [] pc = "insights" -> "graph"
      [] pc = "graph"    -> "store"
      [] pc = "store"    -> "done"

\* the name a connector is selected by, and the key its results are filed under
SelectName(kind) ==
    CASE kind = "arxiv" -> "ArXiv" [] kind = "web" -> "Web Search" [] kind = "youtube" -> "YouTube"

ConnectorName(kind) ==
    CASE kind = "arxiv" -> "search_arxiv" [] kind = "web" -> "search_web"
      [] kind = "youtube" -> "search_youtube"

NoResults ==
    [isError |-> FALSE, error |-> <<>>, topic |-> <<>>, timestamp |-> 0, sources |-> <<>>,
     key_insights |-> RetList(<<>>), knowledge_graph |-> NoGraph]

\* {"error": "Please enter a topic to research"}
ErrorResults == [NoResults EXCEPT !.isError = TRUE, !.error = PleaseEnterTopic]

LogEntry(name, sources, bundle) == [name |-> name, sources |-> sources, bundle |-> bundle]

(***************************************************************************)
(* ResearchAgent.search_arxiv, search_web, search_youtube                  *)
(***************************************************************************)
\* the search library on one call: it yields `yields` results; failsAfter = k >= 0
\* makes it raise once k results are out (k = 0: before the first one), -1 never;
\* bare results carry a title and nothing else
Library(n, k, bare) == [yields |-> n, failsAfter |-> k, bare |-> bare]

NoLibrary == Library(0, -1, FALSE)

\* the j-th result the library yields: an arxiv.Result or a DDGS dict
RawResult(kind, j, bare) ==
    [keys  |-> IF bare THEN {"title"}
               ELSE IF kind = "arxiv"
                    THEN {"title", "authors", "summary", "published", "pdf_url", "categories"}
                    ELSE {"title", "body", "href"},
     title |-> <<"T", KindLetter(kind), Digit(j)>>,
     body  |-> <<"B", KindLetter(kind), Digit(j)>>,
     href  |-> <<"u", KindLetter(kind), Digit(j)>>]

\* r.get(key, "")
GetOrEmpty(raw, key, value) == IF key \in raw.keys THEN value ELSE <<>>

\* '...'
Ellipsis == <<".", ".", ".">>

\* the dict appended for one result; ok = FALSE stands for the AttributeError of a
\* paper without the attribute.  The constant "source" value is the kind.
ToItem(kind, raw) ==
    IF kind = "arxiv"
    THEN [ok   |-> {"title", "authors", "summary", "published", "pdf_url", "categories"}
                       \subseteq raw.keys,
          item |-> [keys  |-> {"title", "authors", "summary", "published", "url",
                               "categories"},
                    title |-> raw.title,
                    body  |-> Take(raw.body, SummaryLimit) \o Ellipsis,
                    url   |-> raw.href]]
    ELSE [ok   |-> TRUE,
          item |-> [keys  |-> {"title", "snippet", "url", "source"},
                    title |-> GetOrEmpty(raw, "title", raw.title),
                    body  |-> GetOrEmpty(raw, "body", raw.body),
                    url   |-> GetOrEmpty(raw, "href", raw.href)]]

NotReturned == [returned |-> FALSE, raised |-> FALSE, items |-> <<>>]

\* return results
SearchReturns(results) == [returned |-> TRUE, raised |-> FALSE, items |-> results]

\* a connector that hands back what it had when the library failed
SearchFailedPartial(results) == SearchReturns(results)

\* except Exception as e: print(...); return []
SearchFailed(results) == SearchReturns(<<>>)

\* the library raises on the pull after `seen` results
RaisesAt(lib, seen) == lib.failsAfter = seen

\* the whole connector call
RECURSIVE SearchFrom(_, _, _)
SearchFrom(kind, lib, results) ==
    LET seen == Len(results)
    IN  IF RaisesAt(lib, seen) THEN SearchFailed(results)
        ELSE IF seen = lib.yields THEN SearchReturns(results)
        ELSE LET next == ToItem(kind, RawResult(kind, seen + 1, lib.bare))
             IN  IF next.ok THEN SearchFrom(kind, lib, Append(results, next.item))
                 ELSE SearchFailed(results)

Search(kind, lib) == SearchFrom(kind, lib, <<>>)

MaxYield == 3

\* what the library may do on a call; nothing in the connectors ties it to max_results
Libraries ==
    { Library(n, k, bare) : n \in 0..MaxYield, k \in -1..MaxYield, bare \in BOOLEAN }

(***************************************************************************)
(* The components at rest                                                  *)
(***************************************************************************)
\* no extract_insights call in this behaviour
IdleInsights ==
    /\ eiCalled = FALSE
    /\ eiSources = <<>>
    /\ eiOutcome = ModelRaises
    /\ eiRet = RetNone

\* no generate_for_platform call in this behaviour
IdleContent ==
    /\ gpBundle = NoneBundle
    /\ gpPlatform = ""
    /\ gpTone = ""
    /\ gpOutcome = ModelRaises
    /\ gpPending = FALSE
    /\ gpRet = NoReturn
    /\ gpRequest = NoRequest
    /\ gpPrev = NoReturn
    /\ gpModelCalls = 0

\* no create_knowledge_graph call in this behaviour
IdleGraph ==
    /\ kgSources = <<>>
    /\ kgClock = 0
    /\ kgGraph = NoGraph
    /\ kgPrev = NoGraph

\* no research_topic call in this behaviour
IdlePipeline ==
    /\ rtPc = "idle"
    /\ rtTopic = <<>>
    /\ rtSelected = {}
    /\ rtMaxResults = 0
    /\ rtClock = 0
    /\ rtResults = NoResults
    /\ rtLog = <<>>
    /\ rtDb = <<>>
    /\ rtRet = NoResults

\* no connector call in this behaviour
IdleConnector ==
    /\ scKind = ""
    /\ scMaxResults = 0
    /\ scLib = NoLibrary
    /\ scPc = "idle"
    /\ scSeen = 0
    /\ scResults = <<>>
    /\ scCalls = 0
    /\ scRet = NotReturned

\* no analyze_trends call in this behaviour
IdleAnalytics ==
    /\ atTopic = <<>>
    /\ atHistory = <<>>
    /\ atTrendReply = ModelRaises
    /\ atRecsReply = ModelRaises
    /\ atCalled = FALSE
    /\ atPc = "idle"
    /\ atPerf = AnalyzeHistoricalPerformance(<<>>)
    /\ atLog = <<>>
    /\ atRet = NotAnalyzed

\* no DatabaseManager call in this behaviour
IdleStore ==
    /\ dmDb = NoTables
    /\ dmClock = 0
    /\ dmCalls = 0
    /\ dmLast = NoCall
    /\ dmPrev = NoCall

\* no constructor call in this behaviour
IdleConstruct ==
    /\ ctEnv = {}
    /\ ctAgents = [cls \in AgentClasses |-> NoAgent]
    /\ ctLast = NoConstruct
    /\ ctReply = NoModelRequest

\* no generate_content call in this behaviour
IdlePackage ==
    /\ gcArgs = [research_data |-> NoneBundle, platforms |-> <<>>, tone |-> "",
                 include_image |-> FALSE]
    /\ gcPc = "idle"
    /\ gcIndex = 0
    /\ gcPackage = <<>>
    /\ gcDb = NoTables
    /\ gcRet = NoPackage

\* no call on shared objects in this behaviour
IdleCalls ==
    /\ obHeap = [o \in SharedObjects |-> Object(<<>>)]
    /\ obBefore = obHeap
    /\ obLast = NoInvocation
    /\ obCalls = 0

\* the components outside research_topic and generate_for_platform at rest
IdleOther ==
    /\ IdleConnector
    /\ IdleAnalytics
    /\ IdleStore
    /\ IdleConstruct
    /\ IdleCalls
    /\ IdlePackage

(***************************************************************************)
(* extract_insights as an operation                                        *)
(***************************************************************************)
InitInsights ==
    /\ IdleOther
    /\ IdleContent
    /\ IdleGraph
    /\ IdlePipeline
    /\ eiCalled = FALSE
    /\ eiSources \in InsightSources
    /\ eiOutcome \in InsightOutcomes
    /\ eiRet = RetNone

\* insights = agent.extract_insights(sources)
CallExtractInsights ==
    /\ ~ eiCalled
    /\ eiCalled' = TRUE
    /\ eiRet' = ExtractInsights(eiSources, eiOutcome)
    /\ UNCHANGED <<eiSources, eiOutcome, gpVars, kgVars, rtVars, otherVars>>

NextInsights == CallExtractInsights

SpecInsights == InitInsights /\ [][NextInsights]_vars

(***************************************************************************)
(* generate_for_platform as an operation: a call, and a second call with   *)
(* the same platform, topic and insights                                   *)
(***************************************************************************)
InitContent ==
    /\ IdleOther
    /\ IdleInsights
    /\ IdleGraph
    /\ IdlePipeline
    /\ \E c \in ContentCalls, other \in OtherInputs :
           /\ gpBundle = WithOther(c.bundle, other)
           /\ gpPlatform = c.platform
           /\ gpTone = other.tone
           /\ gpOutcome = c.outcome
    /\ gpPending = TRUE
    /\ gpRet = NoReturn
    /\ gpRequest = NoRequest
    /\ gpPrev = NoReturn
    /\ gpModelCalls = 0

\* content = self.content_creator.generate_for_platform(research_data, platform, tone)
CallGenerateForPlatform ==
    /\ gpPending
    /\ LET r == GenerateForPlatform(gpBundle, gpPlatform, gpTone, gpOutcome)
       IN  /\ gpRet' = r.ret
           /\ gpRequest' = r.request
           /\ gpModelCalls' = gpModelCalls + (IF r.request.made THEN 1 ELSE 0)
    /\ gpPending' = FALSE
    /\ UNCHANGED <<gpBundle, gpPlatform, gpTone, gpOutcome, gpPrev, eiVars, kgVars, rtVars,
                   otherVars>>

\* the caller asks again: same platform, topic and insights, the rest may differ
AskAgain ==
    /\ ~ gpPending
    /\ gpPrev = NoReturn
    /\ \E other \in OtherInputs, outcome \in RetryOutcomes :
           /\ gpBundle' = WithOther(gpBundle, other)
           /\ gpTone' = other.tone
           /\ gpOutcome' = outcome
    /\ gpPrev' = gpRet
    /\ gpPending' = TRUE
    /\ UNCHANGED <<gpPlatform, gpRet, gpRequest, gpModelCalls, eiVars, kgVars, rtVars,
                   otherVars>>

NextContent == CallGenerateForPlatform \/ AskAgain

SpecContent == InitContent /\ [][NextContent]_vars

(***************************************************************************)
(* create_knowledge_graph as an operation, called again and again on one   *)
(* mapping                                                                 *)
(***************************************************************************)
InitGraph ==
    /\ IdleOther
    /\ IdleInsights
    /\ IdleContent
    /\ IdlePipeline
    /\ kgSources \in GraphSources
    /\ kgClock = 0
    /\ kgGraph = NoGraph
    /\ kgPrev = NoGraph

\* graph = agent.create_knowledge_graph(sources)
CallCreateKnowledgeGraph ==
    /\ kgClock < MaxGraphCalls
    /\ kgGraph' = CreateKnowledgeGraph(kgSources, kgClock + 1)
    /\ kgPrev' = kgGraph
    /\ kgClock' = kgClock + 1
    /\ UNCHANGED <<kgSources, eiVars, gpVars, rtVars, otherVars>>

NextGraph == CallCreateKnowledgeGraph

SpecGraph == InitGraph /\ [][NextGraph]_vars

(***************************************************************************)
(* research_topic as an operation                                          *)
(***************************************************************************)
\* the most results asked of a connector
MaxResults == 2

SelectableNames == {"ArXiv", "Web Search", "YouTube", "Podcasts"}

\* what the hosted model does on the pipeline's one request
PipelineOutcomes ==
    { ModelRaises,
      ModelSays(JsonDumps(InsightArray(2))),
      ModelSays(<<"{", "}">>),
      ModelSays(<<>>) }

InitPipeline ==
    /\ IdleOther
    /\ IdleInsights
    /\ IdleContent
    /\ IdleGraph
    /\ rtPc = "start"
    /\ rtTopic \in {<<>>, TopicOneWord}
    /\ rtSelected \in SUBSET SelectableNames
    /\ rtMaxResults \in 1..MaxResults
    /\ rtClock = 0
    /\ rtResults = NoResults
    /\ rtLog = <<>>
    /\ rtDb = <<>>
    /\ rtRet = NoResults

\* if not topic: return {"error": ...}; results = {...}
EnterResearchTopic ==
    /\ rtPc = "start"
    /\ IF rtTopic = <<>>
       THEN /\ rtRet' = ErrorResults
            /\ rtPc' = "done"
            /\ UNCHANGED <<rtResults, rtClock>>
       ELSE /\ rtResults' = [NoResults EXCEPT !.topic = rtTopic, !.timestamp = rtClock + 1]
            /\ rtClock' = rtClock + 1
            /\ rtPc' = "arxiv"
            /\ UNCHANGED rtRet
    /\ UNCHANGED <<rtTopic, rtSelected, rtMaxResults, rtLog, rtDb, eiVars, gpVars, kgVars, otherVars>>

\* if "<name>" in sources: results["sources"][kind] = self.research_agent.search_<kind>(...)
\* the connector returns what the library yielded (nothing when it failed)
RunConnector(kind) ==
    /\ rtPc = kind
    /\ IF SelectName(kind) \in rtSelected
       THEN \E lib \in Libraries :
                LET found == Search(kind, lib).items
                IN  /\ rtResults' =
                           [rtResults EXCEPT !.sources = Append(@, Entry(kind, found))]
                    /\ rtLog' = Append(rtLog, LogEntry(ConnectorName(kind), <<>>, NoResults))
       ELSE UNCHANGED <<rtResults, rtLog>>
    /\ rtPc' = StageAfter(rtPc)
    /\ UNCHANGED <<rtTopic, rtSelected, rtMaxResults, rtClock, rtDb, rtRet,
                   eiVars, gpVars, kgVars, otherVars>>

\* results["key_insights"] = self.research_agent.extract_insights(results["sources"])
RunExtractInsights ==
    /\ rtPc = "insights"
    /\ \E outcome \in PipelineOutcomes :
           rtResults' = [rtResults EXCEPT
                             !.key_insights = ExtractInsights(rtResults.sources, outcome)]
    /\ rtLog' = Append(rtLog, LogEntry("extract_insights", rtResults.sources, NoResults))
    /\ rtPc' = StageAfter(rtPc)
    /\ UNCHANGED <<rtTopic, rtSelected, rtMaxResults, rtClock, rtDb, rtRet,
                   eiVars, gpVars, kgVars, otherVars>>

\* results["knowledge_graph"] = self.research_agent.create_knowledge_graph(results["sources"])
RunCreateKnowledgeGraph ==
    /\ rtPc = "graph"
    /\ rtResults' = [rtResults EXCEPT
                         !.knowledge_graph = CreateKnowledgeGraph(rtResults.sources, rtClock + 1)]
    /\ rtClock' = rtClock + 1
    /\ rtLog' = Append(rtLog, LogEntry("create_knowledge_graph", rtResults.sources, NoResults))
    /\ rtPc' = StageAfter(rtPc)
    /\ UNCHANGED <<rtTopic, rtSelected, rtMaxResults, rtDb, rtRet, eiVars, gpVars, kgVars, otherVars>>

\* self.db_manager.store_research(results); return results
RunStoreResearch ==
    /\ rtPc = "store"
    /\ \E fault \in Faults \ {"connect"} :
           rtDb' = StoreResearch(rtDb, rtResults, fault, rtClock).rows
    /\ rtLog' = Append(rtLog, LogEntry("store_research", <<>>, rtResults))
    /\ rtPc' = StageAfter(rtPc)
    /\ rtRet' = IF StageAfter(rtPc) = "done" THEN rtResults ELSE rtRet
    /\ UNCHANGED <<rtTopic, rtSelected, rtMaxResults, rtClock, rtResults,
                   eiVars, gpVars, kgVars, otherVars>>

NextPipeline ==
    \/ EnterResearchTopic
    \/ RunConnector("arxiv")
    \/ RunConnector("web")
    \/ RunConnector("youtube")
    \/ RunExtractInsights
    \/ RunCreateKnowledgeGraph
    \/ RunStoreResearch

SpecPipeline == InitPipeline /\ [][NextPipeline]_vars

(***************************************************************************)
(* One connector call, pull by pull                                        *)
(***************************************************************************)
InitConnector ==
    /\ IdleInsights
    /\ IdleContent
    /\ IdleGraph
    /\ IdlePipeline
    /\ scKind \in SourceKinds
    /\ scMaxResults \in 1..MaxResults
    /\ scLib \in Libraries
    /\ scPc = "idle"
    /\ scSeen = 0
    /\ scResults = <<>>
    /\ scCalls = 0
    /\ scRet = NotReturned
    /\ IdleAnalytics
    /\ IdleStore
    /\ IdleConstruct
    /\ IdleCalls
    /\ IdlePackage

\* try: search = arxiv.Search(...) / with DDGS() as ddgs: ddgs.text(...); results = []
StartSearch ==
    /\ scPc = "idle"
    /\ scCalls' = scCalls + 1
    /\ scResults' = <<>>
    /\ scPc' = "pulling"
    /\ UNCHANGED <<scKind, scMaxResults, scLib, scSeen, scRet, scRest>>

\* for paper in search.results(): results.append({...})
ReceiveResult ==
    /\ scPc = "pulling"
    /\ ~ RaisesAt(scLib, scSeen)
    /\ scSeen < scLib.yields
    /\ LET next == ToItem(scKind, RawResult(scKind, scSeen + 1, scLib.bare))
       IN  IF next.ok
           THEN /\ scResults' = Append(scResults, next.item)
                /\ scSeen' = scSeen + 1
                /\ UNCHANGED <<scPc, scRet>>
           ELSE /\ scRet' = SearchFailed(scResults)
                /\ scPc' = "done"
                /\ UNCHANGED <<scResults, scSeen>>
    /\ UNCHANGED <<scKind, scMaxResults, scLib, scCalls, scRest>>

\* the library raises: except Exception as e: print(...); return []
LibraryRaises ==
    /\ scPc = "pulling"
    /\ RaisesAt(scLib, scSeen)
    /\ scRet' = SearchFailed(scResults)
    /\ scPc' = "done"
    /\ UNCHANGED <<scKind, scMaxResults, scLib, scSeen, scResults, scCalls, scRest>>

\* the library is exhausted: return results
ReturnResults ==
    /\ scPc = "pulling"
    /\ ~ RaisesAt(scLib, scSeen)
    /\ scSeen = scLib.yields
    /\ scRet' = SearchReturns(scResults)
    /\ scPc' = "done"
    /\ UNCHANGED <<scKind, scMaxResults, scLib, scSeen, scResults, scCalls, scRest>>

NextConnector ==
    \/ StartSearch
    \/ ReceiveResult
    \/ LibraryRaises
    \/ ReturnResults

SpecConnector == InitConnector /\ [][NextConnector]_vars

(***************************************************************************)
(* analyze_trends as an operation                                          *)
(***************************************************************************)
MaxHistory == 3
MaxTrendItems == 3
MaxRecItems == 4

Post(platform, rate, impressions) ==
    [keys |-> {"platform", "engagement_rate", "impressions"},
     platform |-> platform, engagement_rate |-> rate, impressions |-> impressions]

\* a record with neither a platform nor an engagement_rate
BarePost == [Post(<<>>, 0, 40) EXCEPT !.keys = {"impressions"}]

HistoryEntries ==
    { Post(<<"T", "w", "i", "t", "t", "e", "r">>, 0, 100),
      Post(<<"T", "w", "i", "t", "t", "e", "r">>, 10, 100),
      Post(<<"L", "i", "n", "k", "e", "d", "I", "n">>, 8, 50),
      Post(<<"l", "i", "n", "k", "e", "d", "i", "n">>, 10, 0),
      BarePost }

Histories == UNION {[1..n -> HistoryEntries] : n \in 0..MaxHistory}

TrendText(i) == <<"T", "r", "e", "n", "d", " ", Digit(i)>>
OppText(i) == <<"O", "p", "p", " ", Digit(i)>>
\* longer than the 20 code points the line fallback asks for
RecText(i) ==
    <<"R", "e", "c", "o", "m", "m", "e", "n", "d", "a", "t", "i", "o", "n", " ",
      "n", "u", "m", "b", "e", "r", " ", Digit(i)>>

\* the JSON object the trend prompt asks for, with n trends and m opportunities
TrendObject(n, m) ==
    <<"{">> \o Quoted(KeySummary) \o <<":", " ">> \o Quoted(<<"U", "p">>) \o <<",", " ">>
    \o Quoted(KeyTrends) \o <<":", " ">> \o JsonDumps([i \in 1..n |-> TrendText(i)])
    \o <<",", " ">>
    \o Quoted(KeyOpportunities) \o <<":", " ">> \o JsonDumps([i \in 1..m |-> OppText(i)])
    \o <<"}">>

TrendReplies ==
    { ModelRaises, ModelSaysNone,
      ModelSays(<<"T", "r", "e", "n", "d", "s", " ", "a", "r", "e", " ", "u", "p">>),
      ModelSays(JsonDumps(<<TrendText(1)>>)),
      ModelSays(Quoted(<<"r", "i", "s", "i", "n", "g">>)),
      ModelSays(<<"{", "}">>),
      ModelSays(<<"{">> \o Quoted(KeyOpportunities) \o <<":", " ", "5", "}">>),
      ModelSays(<<"{">> \o Quoted(KeyTrends) \o <<":", " ", "n", "u", "l", "l", "}">>),
      ModelSays(<<"{">> \o Quoted(KeyTrends) \o <<":", " ">> \o Quoted(<<"A", "I">>)
                \o <<",", " ">> \o Quoted(KeyOpportunities) \o <<":", " ">>
                \o Quoted(<<"g", "o", "!">>) \o <<"}">>),
      ModelSays(FenceJson(TrendObject(1, 1))) }
    \cup {ModelSays(TrendObject(n, n)) : n \in {0, MaxTrendItems}}

\* the recommendations one per line, numbered, with a short line before them
RecLineReply(n) ==
    <<"H", "e", "r", "e", ":", "\n">>
    \o Join(<<"\n">>, [i \in 1..n |-> <<Digit(i), ".", " ">> \o RecText(i)])

RecsReplies ==
    { ModelRaises, ModelSaysNone,
      ModelSays(<<"{", "}">>),
      ModelSays(RecLineReply(2)),
      ModelSays(FenceJson(JsonDumps([i \in 1..2 |-> RecText(i)]))) }
    \cup {ModelSays(JsonDumps([i \in 1..n |-> RecText(i)])) : n \in {0, MaxRecItems}}

InitAnalytics ==
    /\ IdleInsights
    /\ IdleContent
    /\ IdleGraph
    /\ IdlePipeline
    /\ IdleConnector
    /\ IdleStore
    /\ IdleConstruct
    /\ IdleCalls
    /\ IdlePackage
    /\ atTopic \in {TopicOneWord, TopicTwoWords}
    /\ atHistory \in Histories
    /\ atTrendReply = ModelRaises
    /\ atRecsReply = ModelRaises
    /\ atCalled = FALSE
    /\ atPc = "statistics"
    /\ atPerf = AnalyzeHistoricalPerformance(<<>>)
    /\ atLog = <<>>
    /\ atRet = NotAnalyzed

\* performance_insights = self._analyze_historical_performance(historical_data)
ComputeStatistics ==
    /\ atPc = "statistics"
    /\ atPerf' = AnalyzeHistoricalPerformance(atHistory)
    /\ atLog' = Append(atLog, "statistics")
    /\ atPc' = "trend request"
    /\ UNCHANGED <<atTopic, atHistory, atTrendReply, atRecsReply, atCalled, atRet, atRest>>

\* _get_ai_trend_analysis enters self.client.chat.completions.create(...)
RequestTrend ==
    /\ atPc = "trend request"
    /\ atLog' = Append(atLog, "trend request")
    /\ atPc' = "trend reply"
    /\ UNCHANGED <<atTopic, atHistory, atTrendReply, atRecsReply, atCalled, atPerf, atRet,
                   atRest>>

\* the trend request returns or raises, and _get_ai_trend_analysis returns
ReceiveTrendReply ==
    /\ atPc = "trend reply"
    /\ \E reply \in TrendReplies :
           /\ atTrendReply' = reply
           /\ atLog' = Append(atLog, IF reply.kind = "raise" THEN "trend failed"
                                     ELSE "trend returned")
    /\ atPc' = "recommendations"
    /\ UNCHANGED <<atTopic, atHistory, atRecsReply, atCalled, atPerf, atRet, atRest>>

\* _generate_recommendations up to its call of _get_ai_recommendations: reading
\* the trend analysis may raise, and nothing catches that
BuildRecommendations ==
    /\ atPc = "recommendations"
    /\ IF GenerateRecommendations(atPerf, GetAiTrendAnalysis(atTopic, atTrendReply),
                                  <<>>).raised
       THEN /\ atPc' = "done"
            /\ atCalled' = TRUE
            /\ atRet' = AnalyzeTrends(atTopic, atHistory, atTrendReply, atRecsReply, 1)
       ELSE /\ atPc' = "recommendations request"
            /\ UNCHANGED <<atCalled, atRet>>
    /\ UNCHANGED <<atTopic, atHistory, atTrendReply, atRecsReply, atPerf, atLog, atRest>>

\* _get_ai_recommendations enters self.client.chat.completions.create(...)
RequestRecommendations ==
    /\ atPc = "recommendations request"
    /\ atLog' = Append(atLog, "recommendations request")
    /\ atPc' = "recommendations reply"
    /\ UNCHANGED <<atTopic, atHistory, atTrendReply, atRecsReply, atCalled, atPerf, atRet,
                   atRest>>

\* the recommendations request returns or raises; the rest of analyze_trends makes
\* no call outside the agent
ReceiveRecommendationsReply ==
    /\ atPc = "recommendations reply"
    /\ \E reply \in RecsReplies :
           /\ atRecsReply' = reply
           /\ atLog' = Append(atLog, IF reply.kind = "raise" THEN "recommendations failed"
                                     ELSE "recommendations returned")
           /\ atRet' = AnalyzeTrends(atTopic, atHistory, atTrendReply, reply, 1)
    /\ atPc' = "done"
    /\ atCalled' = TRUE
    /\ UNCHANGED <<atTopic, atHistory, atTrendReply, atPerf, atRest>>

NextAnalytics ==
    \/ ComputeStatistics
    \/ RequestTrend
    \/ ReceiveTrendReply
    \/ BuildRecommendations
    \/ RequestRecommendations
    \/ ReceiveRecommendationsReply

SpecAnalytics == InitAnalytics /\ [][NextAnalytics]_vars

(***************************************************************************)
(* The DatabaseManager operations, called in any order                     *)
(***************************************************************************)
MaxStoreCalls == 2
MaxSeconds == 1

\* 'ai safety': LIKE '%AI%' finds it too
TopicLonger == <<"a", "i", " ", "s", "a", "f", "e", "t", "y">>

StoreTopics == {TopicOneWord, TopicLonger}

\* what the connectors found for a stored bundle
FoundSources ==
    <<Entry("arxiv", Search("arxiv", Library(1, -1, FALSE)).items),
      Entry("web", Search("web", Library(2, -1, FALSE)).items)>>

\* bundles as research_topic returns them
StoredBundles ==
    { [NoResults EXCEPT !.topic = topic, !.timestamp = 1, !.sources = FoundSources,
                        !.key_insights = insights,
                        !.knowledge_graph = CreateKnowledgeGraph(FoundSources, 2)] :
          topic \in StoreTopics,
          insights \in {RetList(<<Str(InsightText(1)), Str(InsightText(2))>>),
                        RetList(DefaultInsights), RetNone} }

\* the platforms a package is generated for, in the order of the request
PackagePlatforms == <<"Twitter", "LinkedIn", "Instagram", "Blog Post">>

\* the platforms of the largest package
MaxPlatforms == 2

\* content packages of 0..MaxPlatforms platforms
Packages ==
    { [k \in 1..n |-> [platform |-> PackagePlatforms[k], text |-> InsightText(k)]] :
          n \in 0..MaxPlatforms }


InitStore ==
    /\ IdleInsights
    /\ IdleContent
    /\ IdleGraph
    /\ IdlePipeline
    /\ IdleConnector
    /\ IdleAnalytics
    /\ IdleConstruct
    /\ IdleCalls
    /\ IdlePackage
    /\ dmDb = NoTables
    /\ dmClock = 0
    /\ dmCalls = 0
    /\ dmLast = NoCall
    /\ dmPrev = NoCall

\* a second passes
Tick ==
    /\ dmClock < MaxSeconds
    /\ dmClock' = dmClock + 1
    /\ UNCHANGED <<dmDb, dmCalls, dmLast, dmPrev, dmRest>>

\* the bookkeeping of one more call
Called(call) ==
    /\ dmCalls < MaxStoreCalls
    /\ dmCalls' = dmCalls + 1
    /\ dmPrev' = dmLast
    /\ dmLast' = call
    /\ UNCHANGED <<dmClock, dmRest>>

DoStoreResearch ==
    \E bundle \in StoredBundles, fault \in Faults :
        LET out == StoreResearch(dmDb.research, bundle, fault, dmClock)
        IN  /\ dmDb' = [dmDb EXCEPT !.research = out.rows]
            /\ Called(CallOf("store_research", fault, bundle.topic, bundle, dmDb,
                             [Outcome(dmDb, out.raised) EXCEPT !.ret = out.ret]))

DoGetResearchByTopic ==
    \E topic \in StoreTopics, fault \in Faults :
        LET latest == LatestMatches(dmDb.research, topic)
        IN  \E pick \in (IF latest = {} THEN {0} ELSE latest) :
                /\ UNCHANGED dmDb
                /\ Called(CallOf("get_research_by_topic", fault, topic, NoneBundle, dmDb,
                                 GetResearchByTopic(dmDb, pick, fault)))

\* an execute fails at the insert of one of the package's platforms
DoStoreContent ==
    \E package \in Packages, fault \in Faults, failAt \in 0..MaxPlatforms :
        /\ failAt <= Len(package)
        /\ (fault = "execute") = (failAt > 0)
        /\ LET out == StoreContent(dmDb, package, 1, fault, failAt, dmClock)
           IN  /\ dmDb' = out.db
               /\ Called(CallOf("store_content", fault,
                                [k \in 1..Len(package) |-> package[k].platform],
                                NoneBundle, dmDb, out))

DoStorePerformance ==
    \E record \in {Post(<<"T", "w", "i", "t", "t", "e", "r">>, 10, 100), BarePost},
       fault \in Faults :
        LET out == StorePerformance(dmDb, record, 1, fault, dmClock)
        IN  /\ dmDb' = out.db
            /\ Called(CallOf("store_performance", fault, <<>>, NoneBundle, dmDb, out))

DoGetHistoricalPerformance ==
    \E platform \in {<<>>, <<"T", "w", "i", "t", "t", "e", "r">>}, fault \in Faults :
        \E order \in PerformanceOrders(dmDb, platform) :
            /\ UNCHANGED dmDb
            /\ Called(CallOf("get_historical_performance", fault, platform, NoneBundle, dmDb,
                             GetHistoricalPerformance(dmDb, order, fault)))

DoExportData ==
    \E fault \in Faults :
        /\ UNCHANGED dmDb
        /\ Called(CallOf("export_data", fault, <<>>, NoneBundle, dmDb,
                         ExportData(dmDb, fault)))

NextStore ==
    \/ Tick
    \/ DoStoreResearch
    \/ DoGetResearchByTopic
    \/ DoStoreContent
    \/ DoStorePerformance
    \/ DoGetHistoricalPerformance
    \/ DoExportData

SpecStore == InitStore /\ [][NextStore]_vars

(***************************************************************************)
(* The agents being constructed, as app.py and test_research.py do after   *)
(* load_dotenv(), and used for model requests                              *)
(***************************************************************************)
\* keys the provider has issued, and one it has not
IssuedKeys == {"sk-or-1", "sk-or-2"}
EnvironmentKeys == IssuedKeys \cup {"sk-revoked"}

InitConstruct ==
    /\ IdleInsights
    /\ IdleContent
    /\ IdleGraph
    /\ IdlePipeline
    /\ IdleConnector
    /\ IdleAnalytics
    /\ IdleStore
    /\ IdleCalls
    /\ IdlePackage
    /\ ctEnv \in {{}} \cup {{[name |-> CredentialName, value |-> key]} : key \in EnvironmentKeys}
    /\ ctAgents = [cls \in AgentClasses |-> NoAgent]
    /\ ctLast = NoConstruct
    /\ ctReply = NoModelRequest

\* load_dotenv(): a variable of the .env file is set unless the environment has it
LoadDotenv ==
    /\ \E key \in EnvironmentKeys :
           ctEnv' = IF \E e \in ctEnv : e.name = CredentialName THEN ctEnv
                    ELSE ctEnv \cup {[name |-> CredentialName, value |-> key]}
    /\ ctEnv' # ctEnv
    /\ UNCHANGED <<ctAgents, ctLast, ctReply, ctRest>>

\* name = cls(): the name is bound only when the constructor returns
Bind(out) ==
    /\ ctAgents' = IF out.raised THEN ctAgents ELSE [ctAgents EXCEPT ![out.cls] = out.agent]
    /\ UNCHANGED <<ctEnv, ctReply, ctRest>>

\* agent = ResearchAgent()
ConstructResearchAgent ==
    /\ ctLast' = Construct("ResearchAgent", ctEnv)
    /\ Bind(ctLast')

\* self.analytics_agent = AnalyticsAgent()
ConstructAnalyticsAgent ==
    /\ ctLast' = Construct("AnalyticsAgent", ctEnv)
    /\ Bind(ctLast')

\* self.content_creator = ContentCreator()
ConstructContentCreator ==
    /\ ctLast' = Construct("ContentCreator", ctEnv)
    /\ Bind(ctLast')

\* self.client.chat.completions.create(...) in a method of a constructed agent
RequestModel ==
    \E cls \in AgentClasses :
        /\ ctAgents[cls] # NoAgent
        /\ ctReply' = ChatCompletion(cls, ctAgents[cls], IssuedKeys)
        /\ UNCHANGED <<ctEnv, ctAgents, ctLast, ctRest>>

NextConstruct ==
    \/ LoadDotenv
    \/ ConstructResearchAgent
    \/ ConstructAnalyticsAgent
    \/ ConstructContentCreator
    \/ RequestModel

SpecConstruct == InitConstruct /\ [][NextConstruct]_vars

(***************************************************************************)
(* Calls of the components, one after another, on the same objects         *)
(***************************************************************************)
MaxInvocations == 3

\* the research bundles of the calls: none, the empty-topic record, a bundle
SharedBundles ==
    { NoneBundle,
      DictBundle({"error"}, <<>>, <<>>, <<>>, <<>>),
      DictBundle(BundleKeys, TopicTwoWords, <<InsightShort>>, TwoSources, Stamp1) }

SharedHistories ==
    { <<>>,
      <<Post(<<"T", "w", "i", "t", "t", "e", "r">>, 10, 100), BarePost>> }

InitCalls ==
    /\ IdleInsights
    /\ IdleContent
    /\ IdleGraph
    /\ IdlePipeline
    /\ IdleConnector
    /\ IdleAnalytics
    /\ IdleStore
    /\ IdleConstruct
    /\ IdlePackage
    /\ \E sources \in InsightSources, b \in SharedBundles, history \in SharedHistories :
           obHeap = [sources                 |-> Object(sources),
                     research_data           |-> Object(b),
                     historical_data         |-> Object(history),
                     platform_specs          |-> Object(PlatformSpecsTable),
                     platform_best_practices |-> Object(BestPracticesTable)]
    /\ obBefore = obHeap
    /\ obLast = NoInvocation
    /\ obCalls = 0

\* the bookkeeping of one more call, which made the stores ws
Invoked(ws) ==
    /\ obCalls < MaxInvocations
    /\ obCalls' = obCalls + 1
    /\ obBefore' = obHeap
    /\ obHeap' = ApplyWrites(obHeap, ws)
    /\ UNCHANGED obRest

\* insights = self.research_agent.extract_insights(sources)
InvokeExtractInsights ==
    \E outcome \in {ModelRaises, ModelSays(JsonDumps(InsightArray(2)))} :
        /\ obLast' = Invocation("extract_insights", outcome.kind,
                                 WritesExtractInsights(obHeap.sources.value))
        /\ Invoked(obLast'.writes)

\* graph = self.research_agent.create_knowledge_graph(sources)
InvokeCreateKnowledgeGraph ==
    /\ obLast' = Invocation("create_knowledge_graph", "",
                             WritesCreateKnowledgeGraph(obHeap.sources.value))
    /\ Invoked(obLast'.writes)

\* content = self.content_creator.generate_for_platform(research_data, platform, tone)
InvokeGenerateForPlatform ==
    \E platform \in SpecPlatforms, outcome \in {ModelRaises, ModelSays(ShortMarkedReply)} :
        LET b == obHeap.research_data.value
        IN  /\ obLast' = Invocation("generate_for_platform",
                                     IF NeedsResearch(b) THEN "empty topic"
                                     ELSE IF outcome.kind = "text" THEN "success"
                                     ELSE "fallback",
                                     WritesGenerateForPlatform(b, platform, outcome))
            /\ Invoked(obLast'.writes)

\* analysis = self.analytics_agent.analyze_trends(topic, historical_data)
InvokeAnalyzeTrends ==
    \E trendReply \in {ModelRaises, ModelSays(JsonDumps(InsightArray(1)))},
       recsReply \in {ModelRaises, ModelSays(JsonDumps(InsightArray(2)))} :
        /\ obLast' = Invocation("analyze_trends", trendReply.kind,
                                 WritesAnalyzeTrends(TopicOneWord,
                                                     obHeap.historical_data.value,
                                                     trendReply, recsReply))
        /\ Invoked(obLast'.writes)

NextCalls ==
    \/ InvokeExtractInsights
    \/ InvokeCreateKnowledgeGraph
    \/ InvokeGenerateForPlatform
    \/ InvokeAnalyzeTrends

SpecCalls == InitCalls /\ [][NextCalls]_vars

(***************************************************************************)
(* generate_content on what research_topic returns                         *)
(***************************************************************************)
\* the dicts research_topic returns: the error record of an empty topic, and
\* results with every key
ResearchReturns ==
    { DictBundle({"error"}, <<>>, <<>>, <<>>, <<>>),
      DictBundle(BundleKeys, TopicTwoWords, <<InsightShort>>, TwoSources, Stamp1),
      DictBundle(BundleKeys, TopicOneWord, <<DefaultInsight1, DefaultInsight2>>, <<>>, Stamp1) }

\* lists of up to MaxPlatforms platform names
RequestedPlatforms ==
    UNION { [1..n -> ContentPlatforms] : n \in 0..MaxPlatforms }

InitPackage ==
    /\ IdleInsights
    /\ IdleContent
    /\ IdleGraph
    /\ IdlePipeline
    /\ IdleConnector
    /\ IdleAnalytics
    /\ IdleStore
    /\ IdleConstruct
    /\ IdleCalls
    /\ \E research_data \in ResearchReturns, platforms \in RequestedPlatforms,
          include_image \in BOOLEAN :
           gcArgs = [research_data |-> research_data, platforms |-> platforms,
                     tone |-> "professional", include_image |-> include_image]
    /\ gcPc = "platforms"
    /\ gcIndex = 0
    /\ gcPackage = <<>>
    /\ gcDb = NoTables
    /\ gcRet = NoPackage

\* for platform in platforms: ...
GeneratePlatform ==
    /\ gcPc = "platforms"
    /\ gcIndex < Len(gcArgs.platforms)
    /\ \E outcome \in {ModelRaises, ModelSays(ShortMarkedReply)}, saved \in BOOLEAN :
           LET step == GenerateContentStep(gcArgs.research_data, gcPackage,
                                           gcArgs.platforms[gcIndex + 1], gcArgs.tone,
                                           gcArgs.include_image, outcome, saved)
           IN  IF step.raised
               THEN /\ gcPc' = "raised"
                    /\ gcRet' = [NoPackage EXCEPT !.raised = TRUE]
                    /\ UNCHANGED <<gcIndex, gcPackage>>
               ELSE /\ gcPackage' = step.platforms
                    /\ gcIndex' = gcIndex + 1
                    /\ UNCHANGED <<gcPc, gcRet>>
    /\ UNCHANGED <<gcArgs, gcDb>>
    /\ UNCHANGED gcRest

\* self.db_manager.store_content(content_package); return content_package
StorePackage ==
    /\ gcPc = "platforms"
    /\ gcIndex = Len(gcArgs.platforms)
    /\ \E fault \in Faults, failAt \in 0..MaxPlatforms :
           /\ failAt <= Len(gcPackage)
           /\ (fault = "execute") = (failAt > 0)
           /\ LET out == StoreContent(gcDb, gcPackage, "None", fault, failAt, 0)
              IN  /\ gcDb' = out.db
                  /\ gcPc' = IF out.raised THEN "raised" ELSE "done"
                  /\ gcRet' = [raised |-> out.raised,
                               platforms |-> IF out.raised THEN <<>> ELSE gcPackage,
                               stored |-> ~ out.raised /\ fault = "none",
                               fault |-> fault]
    /\ UNCHANGED <<gcArgs, gcIndex, gcPackage>>
    /\ UNCHANGED gcRest

NextPackage ==
    \/ GeneratePlatform
    \/ StorePackage

SpecPackage == InitPackage /\ [][NextPackage]_vars

(***************************************************************************)
(* Claims about extract_insights                                           *)
(***************************************************************************)
\* the first 7 elements of a list of str, as extract_insights returns them
FirstSeven(arr) == RetList([i \in 1..Min(7, Len(arr)) |-> Str(arr[i])])

\* C1: for every reply text of the hosted model (non-JSON text, the empty string,
\* truncated JSON, fenced JSON, valid JSON that is no array), extract_insights
\* returns a non-empty sequence of at most 7 entries and does not raise.
C1_NonEmptyAtMostSeven ==
    (eiCalled /\ eiOutcome.kind = "text") =>
        /\ eiRet.kind = "list"
        /\ Len(eiRet.val) >= 1
        /\ Len(eiRet.val) <= 7

\* C6: a reply that is a valid JSON array of strings comes back as exactly that
\* array's elements in their order, cut to the first 7.
C6_ArrayReturnedInOrder ==
    \A n \in 0..MaxReplyItems :
        (eiCalled /\ eiOutcome \in {ModelSays(JsonDumps(InsightArray(n))),
                                    ModelSays(JsonDumpsIndent(InsightArray(n)))})
            => eiRet = FirstSeven(InsightArray(n))

\* a reply of more than 7 strings has been cut to its first 7
C6_Witness ==
    /\ eiCalled
    /\ eiOutcome = ModelSays(JsonDumps(InsightArray(MaxReplyItems)))
    /\ MaxReplyItems > 7
    /\ Len(eiRet.val) = 7
    /\ eiRet.val[7] = Str(InsightText(7))

\* C7: a JSON array of strings wrapped in a markdown code fence comes back as the
\* array's elements (first 7): no entry is a fence marker or a raw JSON line.
C7_FenceStripped ==
    \A n \in 0..MaxReplyItems :
        (eiCalled /\ eiOutcome \in {ModelSays(FenceJson(JsonDumps(InsightArray(n)))),
                                    ModelSays(FencePlain(JsonDumps(InsightArray(n))))})
            => eiRet = FirstSeven(InsightArray(n))

(***************************************************************************)
(* Claims about generate_for_platform                                      *)
(***************************************************************************)
\* the bundle is None or empty, or its topic is missing or empty
EmptyTopicBundle ==
    \/ gpBundle.isNone
    \/ gpBundle.keys = {}
    \/ "topic" \notin gpBundle.keys
    \/ Len(gpBundle.topic) = 0

\* sub occurs in s
\* the whitespace-separated tokens of s that start with '#'
HashtagTokens(s) == SelectSeq(SplitWs(s), LAMBDA w : w[1] = "#")

\* the last line of s
LastLine(s) ==
    IF \A i \in 1..Len(s) : s[i] # "\n" THEN s
    ELSE LET nl == CHOOSE i \in 1..Len(s) :
                       s[i] = "\n" /\ \A j \in (i + 1)..Len(s) : s[j] # "\n"
         IN  SubSeq(s, nl + 1, Len(s))

\* C2: for every platform of platform_specs and every outcome of the model call (a
\* reply of any length, or a failure that takes the fallback path), the returned
\* text is no longer than the platform's max_length.
C2_TextWithinMaxLength ==
    (~ gpPending /\ gpRequest.made /\ gpRet.kind = "dict" /\ gpPlatform \in SpecPlatforms)
        => Len(gpRet.text) <= PlatformMaxLength(gpPlatform)

\* C3: for every platform and tone, a bundle that is empty or whose topic is missing
\* or empty gets the fixed "complete research first" record with an error entry in
\* its metadata; no model call is made and nothing is raised.
C3_EmptyTopicFixedRecord ==
    (~ gpPending /\ EmptyTopicBundle) =>
        /\ gpRet.kind = "dict"
        /\ gpRet.text = CompleteResearchFirst
        /\ "error" \in gpRet.metaKeys
        /\ ~ gpRequest.made
        /\ gpModelCalls = 0

\* a dict that has research in it but an empty topic got the fixed record
C3_Witness ==
    /\ ~ gpPending
    /\ ~ gpBundle.isNone
    /\ {"topic", "key_insights"} \subseteq gpBundle.keys
    /\ gpBundle.topic = <<>>
    /\ gpPlatform = "Blog Post"
    /\ gpTone = "casual"
    /\ gpRet.text = CompleteResearchFirst

\* the Twitter call whose model request raised
TwitterCallRaised ==
    /\ ~ gpPending
    /\ ~ EmptyTopicBundle
    /\ gpPlatform = "Twitter"
    /\ gpOutcome.kind = "raise"

FallbackCall ==
    /\ ~ gpPending
    /\ ~ EmptyTopicBundle
    /\ ~ gpBundle.insightsNone
    /\ gpPlatform \in SpecPlatforms
    /\ gpOutcome.kind # "text"

\* C5: for each of the four platforms, every non-empty topic and every insights
\* list, a failed model call raises nothing and gives a record with
\* metadata.fallback = true whose text depends on platform, topic and insights
\* only: the call before it, with the same three, gave the same text.
C5_FallbackDeterministic ==
    FallbackCall =>
        /\ gpRet.kind = "dict"
        /\ gpRet.fallback
        /\ "fallback" \in gpRet.metaKeys
        /\ (gpPrev.kind = "dict" /\ gpPrev.fallback) => gpPrev.text = gpRet.text

\* two failed calls in a row, with different errors, for an empty insights list
C5_Witness ==
    /\ FallbackCall
    /\ gpPlatform = "LinkedIn"
    /\ "key_insights" \in gpBundle.keys
    /\ gpBundle.key_insights = <<>>
    /\ gpPrev.kind = "dict"
    /\ gpPrev.fallback
    /\ gpRet.fallback
    /\ gpPrev.error # gpRet.error
    /\ gpModelCalls = 2

(***************************************************************************)
(* Claims about create_knowledge_graph                                     *)
(***************************************************************************)
\* the number of nodes of a graph that are of a kind
NodesOfKind(graph, kind) ==
    Cardinality({i \in 1..Len(graph.nodes) : graph.nodes[i].type = kind})

\* C8: for every sources mapping the graph has at most 5 nodes per source kind and
\* at most 5 x (number of kinds in the mapping) nodes in all, however many items
\* a kind holds.
C8_AtMostFiveNodesPerKind ==
    kgGraph.made =>
        /\ \A kind \in SourceKinds : NodesOfKind(kgGraph, kind) <= 5
        /\ Len(kgGraph.nodes) <= 5 * Len(kgSources)

\* a mapping of three kinds, one of them with more than 5 items and 5 nodes
C8_Witness ==
    /\ kgGraph.made
    /\ Len(kgSources) = 3
    /\ \E k \in 1..Len(kgSources) :
           /\ Len(kgSources[k].items) > 5
           /\ NodesOfKind(kgGraph, kgSources[k].kind) = 5

\* C9: two calls on the same sources mapping give identical node lists, the same
\* ids, labels, types and urls in the same order; the ids start at 0 on every call.
C9_SameNodesOnEveryCall ==
    (kgPrev.made /\ kgGraph.made) =>
        /\ kgPrev.nodes = kgGraph.nodes
        /\ kgGraph.nodes # <<>> => kgGraph.nodes[1].id = 0

\* the second call on a mapping of more than 5 items, made at another time
C9_Witness ==
    /\ kgPrev.made
    /\ kgGraph.made
    /\ kgPrev.created_at # kgGraph.created_at
    /\ Len(kgGraph.nodes) > 5
    /\ kgGraph.nodes[Len(kgGraph.nodes)].id = Len(kgGraph.nodes) - 1

(***************************************************************************)
(* Claims about research_topic                                             *)
(***************************************************************************)
\* the kinds whose connector is selected, in the order research_topic asks them
SelectedKinds ==
    SelectSeq(<<"arxiv", "web", "youtube">>, LAMBDA kind : SelectName(kind) \in rtSelected)

\* the calls a research_topic call is to make, in order
ExpectedCalls ==
    [k \in 1..Len(SelectedKinds) |-> ConnectorName(SelectedKinds[k])]
    \o <<"extract_insights", "create_knowledge_graph", "store_research">>

CallNames == [k \in 1..Len(rtLog) |-> rtLog[k].name]

\* the kinds a sources map holds, in order
KindsOf(sources) == [k \in 1..Len(sources) |-> sources[k].kind]

\* C10: with a non-empty topic the selected connectors are called one at a time, each
\* at most once and the others never; extract_insights is called after every
\* connector has returned, create_knowledge_graph after extract_insights has
\* returned, and store_research exactly once, last, with a bundle that holds the
\* sources map, the insights and the graph.
C10_PipelineOrder ==
    (rtPc # "idle" /\ rtTopic # <<>>) =>
        /\ Len(rtLog) <= Len(ExpectedCalls)
        /\ CallNames = SubSeq(ExpectedCalls, 1, Len(rtLog))
        /\ \A k \in 1..Len(rtLog) :
               rtLog[k].name \in {"extract_insights", "create_knowledge_graph"}
                   => KindsOf(rtLog[k].sources) = SelectedKinds
        /\ rtPc = "done" =>
               /\ CallNames = ExpectedCalls
               /\ LET stored == rtLog[Len(rtLog)].bundle
                  IN  /\ stored = rtRet
                      /\ stored.topic = rtTopic
                      /\ KindsOf(stored.sources) = SelectedKinds
                      /\ stored.sources = rtLog[Len(rtLog) - 1].sources
                      /\ stored.sources = rtLog[Len(rtLog) - 2].sources
                      /\ stored.knowledge_graph.made
                      /\ stored.knowledge_graph.total_sources = TotalSources(stored.sources)
               /\ Len(rtDb) <= 1

\* a finished call with two of the three connectors selected and a row stored
C10_Witness ==
    /\ rtPc = "done"
    /\ rtTopic # <<>>
    /\ rtSelected = {"ArXiv", "YouTube", "Podcasts"}
    /\ Len(rtLog) = 5
    /\ rtLog[5].name = "store_research"
    /\ Len(rtDb) = 1
    /\ rtRet.key_insights.kind = "list"

(***************************************************************************)
(* Claims about the connectors                                             *)
(***************************************************************************)
\* the library failed somewhere in this call: it raised, or a result lacked an attribute
LibraryFailed ==
    \/ scLib.failsAfter \in 0..scLib.yields
    \/ scKind = "arxiv" /\ scLib.bare /\ scLib.yields > 0

\* C11: a connector called with max_results = N returns at most N entries, whatever the
\* library yields
C11_AtMostMaxResults ==
    scPc = "done" => Len(scRet.items) <= scMaxResults

\* C12: a connector always returns (it never raises), it starts one search and no more,
\* and when the library failed, before the first result or after some, it returns the
\* empty list and not the results it had
C12_FailureGivesEmptyList ==
    scPc = "done" =>
        /\ scRet.returned
        /\ ~ scRet.raised
        /\ scCalls = 1
        /\ LibraryFailed => scRet.items = <<>>
        /\ ~ LibraryFailed => scRet.items = scResults

\* the library raised after results had been appended, and the caller got []
C12_Witness ==
    /\ scPc = "done"
    /\ scResults # <<>>
    /\ RaisesAt(scLib, scSeen)
    /\ scRet.items = <<>>

(***************************************************************************)
(* Claims about analyze_trends                                             *)
(***************************************************************************)
\* C13: analyze_trends returns a result (summary, recommendations, metrics, trends,
\* best_practices) and does not raise, whatever the history and the model replies
C13_AlwaysReturnsResult ==
    atCalled => atRet.returned /\ ~ atRet.raised

StartsWith(v, prefix) == v.t = "str" /\ Take(v.s, Len(prefix)) = prefix

\* the entries i+1..i+Len(part) of list are those of part
HasAt(list, i, part) ==
    /\ i + Len(part) <= Len(list)
    /\ \A k \in 1..Len(part) : list[i + k] = part[k]

\* what _get_ai_recommendations gave on this call
AiRecs == GetAiRecommendations(atRecsReply)

\* C14 as stated: at most 2 opportunities, the best-platform callout, the two static
\* tips, at most 3 AI recommendations, and nothing else in between; at most 10 entries
C14_ListedOrder ==
    atCalled /\ atRet.returned =>
        LET r == atRet.recommendations
        IN  /\ Len(r) <= MaxRecommendations
            /\ \E a \in 0..MaxOpportunities, c \in 0..MaxAiRecs :
                   /\ Len(r) = a + 3 + c
                   /\ \A i \in 1..a : StartsWith(r[i], <<"<bulb>", " ">>)
                   /\ StartsWith(r[a + 1], <<"<target>", " ">>)
                   /\ HasAt(r, a + 1, <<Str(PostDuringPeak), Str(IncludeVisuals)>>)
                   /\ HasAt(r, a + 3, Take(AiRecs, c))

\* some record of the history carries a non-zero engagement_rate
HasEngagementData == \E i \in 1..Len(atHistory) : RateOf(atHistory[i]) # 0

\* C14 amended: at most 2 opportunities; then, for a non-empty history, the callout
\* (only when some record has engagement data) and the posting-times tip, for an empty
\* history the start-tracking tip; then the entry naming the trends; then the two
\* static tips; then at most 3 AI recommendations; at most 10 entries
C14_AssembledOrder ==
    atCalled /\ atRet.returned =>
        LET r == atRet.recommendations
            b == IF atHistory = <<>> THEN 1 ELSE IF HasEngagementData THEN 2 ELSE 1
            c == Min(MaxAiRecs, Len(AiRecs))
        IN  /\ Len(r) <= MaxRecommendations
            /\ \E a \in 0..MaxOpportunities :
                   /\ Len(r) = a + b + 3 + c
                   /\ \A i \in 1..a : StartsWith(r[i], <<"<bulb>", " ">>)
                   /\ IF atHistory = <<>> THEN r[a + 1] = Str(StartTracking)
                      ELSE /\ r[a + b] = Str(TestPostingTimes)
                           /\ HasEngagementData => StartsWith(r[a + 1], <<"<target>", " ">>)
                   /\ StartsWith(r[a + b + 1], FocusOnTrends)
                   /\ HasAt(r, a + b + 1, <<Str(PostDuringPeak), Str(IncludeVisuals)>>)
                   /\ HasAt(r, a + b + 3, Take(AiRecs, c))

\* a list with every part at its largest: 2 opportunities, callout and tip, trends,
\* the static tips, 3 of 4 AI recommendations
C14_Witness ==
    /\ atCalled
    /\ atRet.returned
    /\ Len(atRet.recommendations) = MaxRecommendations
    /\ Len(AiRecs) > MaxAiRecs
    /\ HasEngagementData

\* the plain average of a platform: the mean of engagement_rate over all its records
PlainAverage(platform) ==
    LET data == SelectSeq(atHistory, LAMBDA d : PlatformOf(d, UnknownPlatform) = platform)
    IN  Mean([k \in 1..Len(data) |-> RateOf(data[k])])

FirstRecord(platform) ==
    CHOOSE i \in 1..Len(atHistory) :
        /\ PlatformOf(atHistory[i], UnknownPlatform) = platform
        /\ \A j \in 1..(i - 1) : PlatformOf(atHistory[j], UnknownPlatform) # platform

HistoryPlatforms == {PlatformOf(atHistory[i], UnknownPlatform) : i \in 1..Len(atHistory)}

\* the platform the callout of the returned list names
NamesPlatform(platform) ==
    \E i \in 1..Len(atRet.recommendations) :
        atRet.recommendations[i] = Str(BestPlatformCallout(platform))

\* C15: with engagement data in the history, the callout names a platform whose
\* average engagement is maximal among all platforms of the history, and among several
\* with that average the one whose first record is earliest
C15_BestPlatformHasMaxAverage ==
    atCalled /\ atRet.returned /\ HasEngagementData =>
        \E p \in HistoryPlatforms :
            /\ NamesPlatform(p)
            /\ \A q \in HistoryPlatforms :
                   /\ ~ MeanLess(PlainAverage(p), PlainAverage(q))
                   /\ MeanEq(PlainAverage(p), PlainAverage(q))
                          => FirstRecord(p) <= FirstRecord(q)

\* C16: for an empty history analyze_trends returns metrics that are exactly
\* total_posts 0, avg_engagement 0, total_impressions 0, whatever the model replies
C16_EmptyHistoryMetrics ==
    atCalled /\ atHistory = <<>> =>
        /\ atRet.returned
        /\ atRet.metrics.keys = {"total_posts", "avg_engagement", "total_impressions"}
        /\ atRet.metrics.total_posts = 0
        /\ atRet.metrics.avg_engagement = 0
        /\ atRet.metrics.total_impressions = 0

(***************************************************************************)
(* Claims about the DatabaseManager                                        *)
(***************************************************************************)
\* the store failed somewhere during the last call
StoreFaulted == dmLast.op # "none" /\ dmLast.fault # "none"

\* the value the operation of the last call returns when the store fails
ReturnsSentinel ==
    CASE dmLast.op = "store_research" -> dmLast.ret = StoreFailed
      [] dmLast.op = "store_content" -> dmLast.ids = <<>>
      [] dmLast.op = "get_historical_performance" -> dmLast.rows = <<>>
      [] dmLast.op = "get_research_by_topic" -> ~ dmLast.found
      [] OTHER -> TRUE

\* C17: every DatabaseManager operation returns to its caller without raising for
\* every failure of the underlying store, a failure to open the connection
\* included, and store_research then returns -1, store_content and
\* get_historical_performance the empty list, get_research_by_topic None.
C17_FailureGivesSentinel ==
    StoreFaulted => ~ dmLast.raised /\ ReturnsSentinel

\* get_research_by_topic(B.topic) has just returned, right after store_research
\* stored the bundle B; neither call met a failure of the store
ReadBackAfterStore ==
    /\ dmPrev.op = "store_research" /\ dmPrev.fault = "none"
    /\ dmLast.op = "get_research_by_topic" /\ dmLast.fault = "none"
    /\ dmLast.topic = dmPrev.topic

\* research_data.get("key_insights", []) as generate_for_platform reads it
InsightsRead(b) ==
    IF "key_insights" \in b.keys
    THEN [isNone |-> b.insightsNone, list |-> b.key_insights]
    ELSE [isNone |-> FALSE, list |-> <<>>]

\* C18: for a bundle B returned by research_topic and stored successfully, the
\* bundle get_research_by_topic(B.topic) returns right afterwards gives
\* generate_for_platform the same topic, the same insights list and the same
\* sources as B does.
C18_PersistedBundleGivesSameResearch ==
    ReadBackAfterStore =>
        /\ dmLast.found
        /\ dmLast.bundle.topic = ResearchData(dmPrev.stored).topic
        /\ InsightsRead(dmLast.bundle) = InsightsRead(ResearchData(dmPrev.stored))
        /\ dmLast.bundle.sourcesJson = SourcesJson(dmPrev.stored.sources)

(***************************************************************************)
(* Claims about _post_process_content                                      *)
(***************************************************************************)
BoldMarker == <<"*", "*">>
UnderlineMarker == <<"_", "_">>

\* generate_for_platform has returned the post-processed reply of the model
ReplyProcessed ==
    /\ ~ gpPending
    /\ gpOutcome.kind = "text"
    /\ gpRet.kind = "dict"
    /\ ~ gpRet.fallback
    /\ ~ EmptyTopicBundle

\* C19: for every model reply and every platform other than "Blog Post", the text
\* _post_process_content returns contains neither the bold marker "**" nor the
\* underline marker "__"; for "Blog Post" the markers of the reply are kept.
C19_MarkupStripped ==
    ReplyProcessed =>
        IF gpPlatform # "Blog Post"
        THEN /\ ~ Contains(gpRet.text, BoldMarker)
             /\ ~ Contains(gpRet.text, UnderlineMarker)
        ELSE /\ Contains(gpOutcome.text, BoldMarker) => Contains(gpRet.text, BoldMarker)
             /\ Contains(gpOutcome.text, UnderlineMarker)
                    => Contains(gpRet.text, UnderlineMarker)

(***************************************************************************)
(* Claims about the constructors                                           *)
(***************************************************************************)
\* C20: constructing ResearchAgent with no arguments completes without raising
\* and leaves the agent with its client and its fixed model identifier set,
\* whether or not the API credential is in the environment.
C20_ResearchAgentConstructs ==
    ctLast.cls = "ResearchAgent" =>
        /\ ~ ctLast.raised
        /\ ctAgents["ResearchAgent"].attrs = {"client", "model"}
        /\ ctAgents["ResearchAgent"].model = ModelId

(***************************************************************************)
(* More claims about extract_insights                                      *)
(***************************************************************************)
\* extract_insights has been called and its model request raised
ModelCallRaised == eiCalled /\ eiOutcome.kind = "raise"

\* C21: when the model call made by extract_insights raises, extract_insights
\* returns exactly the fixed list of the three default insights, for every
\* sources mapping, and does not raise.
C21_ModelFailureGivesDefaults ==
    ModelCallRaised =>
        /\ eiRet.kind = "list"
        /\ Len(eiRet.val) = 3
        /\ eiRet.val = <<Str(DefaultInsight1), Str(DefaultInsight2), Str(DefaultInsight3)>>

\* the model call raised on a mapping with items of two kinds
C21_Witness ==
    /\ ModelCallRaised
    /\ Len(eiSources) = 2
    /\ eiRet = RetList(DefaultInsights)

\* the reply of the model came back and is not valid JSON
ReplyNotJson ==
    /\ eiCalled
    /\ eiOutcome.kind = "text"
    /\ ~ JsonLoads(eiOutcome.text).ok

\* a line without its leading bullet marker
WithoutBullet(line) ==
    IF line # <<>> /\ line[1] \in {"-", "<bullet>"} THEN Strip(Tail(line)) ELSE line

\* a line without its leading number marker: digits followed by '.' or ')'
WithoutNumber(line) ==
    LET digits == {d \in 1..Len(line) : \A k \in 1..d : line[k] \in Digits}
        n      == Cardinality(digits)
    IN  IF n > 0 /\ Len(line) > n /\ line[n + 1] \in {".", ")"}
        THEN Strip(SubSeq(line, n + 2, Len(line)))
        ELSE line

\* the non-blank lines of a reply, markers removed
MarkerFreeLines(content) ==
    LET lines == SelectSeq(SplitOn(content, "\n"), LAMBDA l : Strip(l) # <<>>)
    IN  [k \in 1..Len(lines) |-> Str(WithoutNumber(WithoutBullet(Strip(lines[k]))))]

\* C22: when the model reply is not valid JSON, extract_insights returns the
\* reply's non-blank lines in their order (first 7), each with its leading bullet
\* marker and its leading number marker removed and the rest of the line kept.
C22_LinesWithoutMarkers ==
    ReplyNotJson => eiRet = RetList(Take(MarkerFreeLines(eiOutcome.text), 7))

(***************************************************************************)
(* More claims about create_knowledge_graph                                *)
(***************************************************************************)
\* how many items of the k-th kind of the mapping become nodes
Shown(k) == Min(5, Len(kgSources[k].items))

\* how many nodes come before those of the k-th kind
NodesBefore(k) == Sum([i \in 1..(k - 1) |-> Shown(i)])

\* C23: create_knowledge_graph lists nodes kind by kind in the mapping's order
\* and, within a kind, in item order (first 5 items only); the id of every node is
\* its 0-based position in the node list; every node's type is its source kind
\* and its label is the item's title, or "Unknown" when the item has no title;
\* edges is always empty.
C23_NodesInMappingOrder ==
    kgGraph.made =>
        /\ Len(kgGraph.nodes) = NodesBefore(Len(kgSources) + 1)
        /\ \A p \in 1..Len(kgGraph.nodes) : kgGraph.nodes[p].id = p - 1
        /\ \A k \in 1..Len(kgSources) : \A j \in 1..Shown(k) :
               LET node == kgGraph.nodes[NodesBefore(k) + j]
                   item == kgSources[k].items[j]
               IN  /\ node.type = kgSources[k].kind
                   /\ node.label = IF "title" \in item.keys THEN item.title
                                   ELSE <<"U", "n", "k", "n", "o", "w", "n">>
        /\ kgGraph.edges = <<>>

\* three kinds, the first with more than 5 items, and an item without a title
C23_Witness ==
    /\ kgGraph.made
    /\ Len(kgSources) = 3
    /\ Len(kgSources[1].items) > 5
    /\ Len(kgGraph.nodes) > 5
    /\ kgGraph.nodes[6].type = kgSources[2].kind
    /\ \E p \in 1..Len(kgGraph.nodes) :
           kgGraph.nodes[p].label = <<"U", "n", "k", "n", "o", "w", "n">>

(***************************************************************************)
(* More claims about the analytics agent                                   *)
(***************************************************************************)
\* _analyze_historical_performance has returned
StatisticsComputed == atPc \notin {"idle", "statistics"}

\* the engagement rates of all records of a platform
AllRates(platform) ==
    LET data == SelectSeq(atHistory, LAMBDA d : PlatformOf(d, UnknownPlatform) = platform)
    IN  [k \in 1..Len(data) |-> RateOf(data[k])]

\* C24: for every platform that occurs in the history,
\* _analyze_historical_performance reports an entry whose avg_engagement,
\* max_engagement and min_engagement are the mean, maximum and minimum of the
\* engagement rates of all records of that platform, the records its post_count
\* counts, those with rate 0 included.
C24_StatisticsOverAllRecords ==
    StatisticsComputed =>
        \A p \in HistoryPlatforms :
            \E k \in 1..Len(atPerf.platforms) :
                LET entry == atPerf.platforms[k]
                IN  /\ entry.platform = p
                    /\ entry.post_count = Len(AllRates(p))
                    /\ MeanEq(entry.avg_engagement, Mean(AllRates(p)))
                    /\ entry.max_engagement = SeqMax(AllRates(p))
                    /\ entry.min_engagement = SeqMin(AllRates(p))

\* the model requests the call has issued so far
ModelRequests ==
    SelectSeq(atLog, LAMBDA e : e \in {"trend request", "recommendations request"})

\* C25: each analyze_trends call makes at most two model calls, the trend request
\* first and the recommendations request second; the second is issued only after
\* the first has returned or failed, and it is issued also when the first failed;
\* the per-platform statistics are computed before the first model call and need
\* no external call.
C25_TwoModelCallsInOrder ==
    /\ Len(ModelRequests) <= 2
    /\ ModelRequests \in {<<>>, <<"trend request">>,
                          <<"trend request", "recommendations request">>}
    /\ \A i \in 1..Len(atLog) :
           /\ atLog[i] = "trend request" => i = 2 /\ atLog[1] = "statistics"
           /\ atLog[i] = "recommendations request"
                  => i = 4 /\ atLog[3] \in {"trend returned", "trend failed"}
    /\ StatisticsComputed => atLog[1] = "statistics"
    /\ (atCalled /\ atLog[3] = "trend failed")
           => Len(atLog) > 3 /\ atLog[4] = "recommendations request"

\* a call whose trend request failed and whose recommendations request was answered
C25_Witness ==
    /\ atCalled
    /\ atRet.returned
    /\ atLog = <<"statistics", "trend request", "trend failed", "recommendations request",
                 "recommendations returned">>
    /\ atHistory # <<>>

\* C26: a failed persistence call leaves the store as it was before the call: if
\* store_content fails while inserting the row of any platform of the package, no
\* row of that call remains in the content table and it returns the empty list;
\* if store_research fails, no research row is added and it returns -1; on
\* success store_content returns exactly one id per platform of the package, in
\* the package's order.
C26_FailedCallLeavesStore ==
    /\ (dmLast.op \in {"store_content", "store_research"} /\ dmLast.fault # "none")
           => dmDb = dmLast.before
    /\ (dmLast.op = "store_content" /\ dmLast.fault = "execute")
           => ~ dmLast.raised /\ dmLast.ids = <<>>
    /\ (dmLast.op = "store_research" /\ dmLast.fault # "none")
           => ~ dmLast.raised /\ dmLast.ret = -1
    /\ (dmLast.op = "store_content" /\ dmLast.fault = "none")
           => /\ Len(dmLast.ids) = Len(dmLast.topic)
              /\ \A k \in 1..Len(dmLast.ids) :
                     /\ dmLast.ids[k] = Len(dmLast.before.content) + k
                     /\ dmDb.content[dmLast.ids[k]].platform = dmLast.topic[k]

(***************************************************************************)
(* Claims about the objects the calls share                                *)
(***************************************************************************)
\* the latest call stored into the container named object
StoredInto(object) ==
    \E k \in 1..Len(obLast.writes) : obLast.writes[k].object = object

\* C27: no component call changes its inputs or keeps state across calls:
\* extract_insights and create_knowledge_graph leave the sources mapping as it was,
\* generate_for_platform leaves the research bundle as it was on the success, the
\* fallback and the empty-topic path, and after any sequence of calls platform_specs
\* and platform_best_practices equal their values at construction.
C27_CallsLeaveInputsAndTables ==
    obCalls > 0 =>
        /\ obLast.method \in {"extract_insights", "create_knowledge_graph"}
               => obHeap.sources = obBefore.sources
        /\ obLast.method = "generate_for_platform"
               => obHeap.research_data = obBefore.research_data
        /\ obHeap.platform_specs = Object(PlatformSpecsTable)
        /\ obHeap.platform_best_practices = Object(BestPracticesTable)

\* a second or later call, analyze_trends, has filled the dict of best practices it
\* returns from the table
C27_Witness ==
    /\ obCalls > 1
    /\ obLast.method = "analyze_trends"
    /\ StoredInto("best_practices")
    /\ C27_CallsLeaveInputsAndTables

(***************************************************************************)
(* Claims about generate_content                                           *)
(***************************************************************************)
\* the call is over and the store met no fault
PackageCallOver == gcPc \in {"done", "raised"} /\ gcRet.fault = "none"

\* research_data is the error record research_topic returns for an empty topic
GivenErrorRecord == gcArgs.research_data.keys = {"error"}

\* C28: generate_content does not raise for any research_data research_topic can
\* return, the error record of an empty topic included, with include_image on or
\* off: for the error record every requested platform gets the "complete research
\* first" record and the package is still stored.
C28_GenerateContentDoesNotRaise ==
    PackageCallOver =>
        /\ ~ gcRet.raised
        /\ GivenErrorRecord =>
               /\ gcRet.stored
               /\ \A k \in 1..Len(gcArgs.platforms) :
                      \E j \in 1..Len(gcRet.platforms) :
                          /\ gcRet.platforms[j].platform = gcArgs.platforms[k]
                          /\ gcRet.platforms[j].content = ErrorRecord

\* the call has returned the post-processed reply of the model
ReplyReturned ==
    /\ ~ gpPending
    /\ gpOutcome.kind = "text"
    /\ ~ NeedsResearch(gpBundle)
    /\ gpRet.kind = "dict"
    /\ gpRet.text = PostProcessContent(gpOutcome.text, gpPlatform)

\* C29: _post_process_content is idempotent: for every text and every platform,
\* applying it to its own output gives that output again.
C29_PostProcessIdempotent ==
    ReplyReturned => PostProcessContent(gpRet.text, gpPlatform) = gpRet.text

\* C30: for every platform name passed to generate_for_platform, a name that is not
\* a key of platform_specs included, the maximum length _post_process_content
\* enforces on the reply equals the max_length the call states in the prompt.
C30_EnforcedLengthIsPromptLength ==
    (~ gpPending /\ gpRequest.made) => EnforcedMaxLength(gpPlatform) = gpRequest.max_length

====
